---- MODULE Spec2Model ----
(***************************************************************************)
(* Model of the text-to-speech core: the playback orchestrator             *)
(* (tts/manager.rs), the audio output worker and its handle                *)
(* (tts/player.rs) and the command layer that calls them (main.rs); and    *)
(* of the supervisor of the companion server process (server.rs).          *)
(*                                                                         *)
(* The specifications share the same state and the same steps:             *)
(*   Spec         callers go through the tauri commands of main.rs, each   *)
(*                of which holds the tts_manager mutex for its duration;   *)
(*   SpecManager  callers invoke the &self methods of TtsManager directly, *)
(*                so only the manager's own config/state locks order them; *)
(*   SpecNew      as Spec, from TtsManager::new on, AudioPlayer::new       *)
(*                included;                                                *)
(*   SpecPlayer   the AudioPlayer alone, from new() to the end of its      *)
(*                thread, its methods called one at a time;                *)
(*   FairSpecPlayer  SpecPlayer with the threads scheduled fairly;         *)
(*   SpecServer   the ServerProcess supervisor and the processes it spawns;*)
(*   FairSpecServer  SpecServer with the task running stop() scheduled;    *)
(*   SpecEngines  one caller of the commands, on each kind of host, with   *)
(*                the three engines (tts/system_tts.rs, tts/piper_tts.rs,  *)
(*                tts/cloud_tts.rs) and the queries;                       *)
(*   SpecSynthesize  synthesize called on the engines themselves;          *)
(*   SpecShared   the AudioPlayer with its handle shared by two threads;   *)
(*   SpecControls speak, pause, resume and update_config of TtsManager     *)
(*                called directly by two threads;                          *)
(*   SpecPlayback Spec with the sounds of the sink coming to their end;    *)
(*   SpecStartServer  the start_server command of main.rs, repeated.       *)
(* Floats of a request are fixed point, in tenths: 1.0 is 10. What an      *)
(* engine computes from them is computed as f32, in units of 2^-24. The    *)
(* texts and voices of the model hold no character an engine escapes.      *)
(***************************************************************************)
EXTENDS Integers, Sequences, FiniteSets, TLC

\* ------------------------------------------------------------ bounds
MaxSpeaks == 2
MaxDirectSpeaks == 1
MaxUpdates == 1
MaxSpawns == 2
MaxInvocations == 2

\* Two callers: enough for every overlap of two operations.
Callers == {1, 2}

\* ------------------------------------------------------------ types.rs
None == "None"
NoneF == 0 - 1

EngineType == {"System", "Piper", "Cloud"}

PlaybackState == {"Idle", "Synthesizing", "Playing", "Paused", "Error"}

CloudProvider == {"OpenAI", "Azure", "Google"}

\* TtsConfig, its nested structures flattened: piper.model_path, and
\* cloud.provider, cloud.api_key, cloud.voice and cloud.endpoint.
DefaultConfig ==
  [active_engine |-> "System", model_path |-> None, provider |-> "OpenAI",
   api_key |-> None, voice |-> None, endpoint |-> None,
   default_rate |-> 10, default_pitch |-> 10, default_volume |-> 10]

PiperConfig ==
  [active_engine |-> "Piper", model_path |-> "/models/voice.onnx",
   provider |-> "Azure", api_key |-> "", voice |-> None, endpoint |-> None,
   default_rate |-> 15, default_pitch |-> 5, default_volume |-> 5]

CloudConfig ==
  [active_engine |-> "Cloud", model_path |-> "/nonexistent/model.onnx",
   provider |-> "Google", api_key |-> "sk-key", voice |-> "nova",
   endpoint |-> None,
   default_rate |-> 20, default_pitch |-> 20, default_volume |-> 0]

TtsConfig == {DefaultConfig, PiperConfig, CloudConfig}

AzureConfig ==
  [CloudConfig EXCEPT !.provider = "Azure", !.voice = None,
     !.model_path = "/models/voice.onnx",
     !.endpoint = "https://eastus.tts.speech.microsoft.com/cognitiveservices/v1"]

AzureBareConfig == [AzureConfig EXCEPT !.endpoint = None, !.model_path = None]

OpenAIConfig ==
  [DefaultConfig EXCEPT !.active_engine = "Cloud", !.api_key = "sk-key",
                        !.default_rate = 13]

\* The configurations given to TtsManager::new where the engines matter,
\* each with the backend of the host it is used on.
Hosts ==
  {[config |-> DefaultConfig, backend |-> "EspeakNg"],
   [config |-> PiperConfig, backend |-> "Espeak"],
   [config |-> CloudConfig, backend |-> "Say"],
   [config |-> AzureConfig, backend |-> "Sapi"],
   [config |-> AzureBareConfig, backend |-> "None"],
   [config |-> OpenAIConfig, backend |-> "EspeakNg"]}

EngineConfigs == {h.config : h \in Hosts}

NoRequest ==
  [text |-> "", engine |-> None, voice |-> None,
   rate |-> NoneF, pitch |-> NoneF, volume |-> NoneF]

\* Requests given to TtsManager::speak: nothing set, everything set, and
\* rate alone or pitch and volume alone.
TtsRequest ==
  {[NoRequest EXCEPT !.text = "Hello"],
   [NoRequest EXCEPT !.text = "Hello", !.engine = "Cloud", !.rate = 12,
                     !.pitch = 8, !.volume = 3],
   [NoRequest EXCEPT !.text = "Hello", !.engine = "Piper", !.rate = 12],
   [NoRequest EXCEPT !.text = "Hello", !.pitch = 8, !.volume = 3]}

NoAudio == [id |-> 0, decodable |-> FALSE]

NoResult == [tag |-> "none", audio |-> NoAudio, err |-> ""]

\* ------------------------------------------------------------ state
VARIABLES
  config,        \* TtsManager.config
  state,         \* TtsManager.state
  player,        \* TtsManager.player is Some
  cloud_engine,  \* TtsManager.cloud_engine is Some
  tts_manager,   \* AppState.tts_manager: the caller holding the mutex, 0 if free
  cmd_rx,        \* commands in flight from the handle to the worker
  resp_rx,       \* responses in flight from the worker to the handle
  resp_rx_lock,  \* AudioPlayer.resp_rx: the caller holding the mutex, 0 if free
  worker_alive,  \* the audio thread is in its command loop
  sink,          \* the worker's rodio Sink: the sound it holds and whether paused
  pc,            \* each caller's position
  call,          \* each caller's locals of the operation in progress
  n_speaks,      \* speak calls started so far
  n_updates,     \* update_config calls started so far
  issued,        \* history: configurations handed to new / update_config
  prev,          \* history: the command that returned last
  last_change,   \* history: the last returned command that wrote state
  handle,        \* AudioPlayer::new and the handle it returns: where it is
  worker_pc,     \* the audio thread's position, or how it left its loop
  child,         \* ServerProcess.child: the tracked process, 0 if None
  procs,         \* the processes spawned so far and whether each has exited
  srv,           \* the ServerProcess call in progress and its locals
  engines,       \* TtsManager.system_engine, piper_engine and cloud_engine
  invocations    \* history: what the engines were asked and what they ran

vars ==
  <<config, state, player, cloud_engine, tts_manager, cmd_rx, resp_rx,
    resp_rx_lock, worker_alive, sink, pc, call, n_speaks, n_updates,
    issued, prev, last_change, handle, worker_pc, child, procs, srv,
    engines, invocations>>

lifecycle == <<handle, worker_pc>>
server == <<child, procs, srv>>
synthesis == <<engines, invocations>>

\* The worker's rodio Sink as created: nothing queued, playing, full volume.
EmptySink == [queue |-> <<>>, paused |-> FALSE, volume |-> 10]

NoCall ==
  [op |-> "none", id |-> 0, arg |-> NoRequest, new_config |-> DefaultConfig,
   request |-> NoRequest, engine_type |-> None, result |-> NoResult,
   cmd |-> "none", resp |-> "none", ret |-> "none",
   pre |-> "none", snap |-> DefaultConfig, writes |-> <<>>, sent |-> <<>>,
   invoked |-> None, answers |-> <<>>, before |-> EmptySink,
   available |-> {}]

NoRecord == [op |-> "none", ok |-> FALSE, pre |-> "none", post |-> "none"]

Record(c, post) ==
  [op |-> c.op, ok |-> c.ret = "Ok", pre |-> c.pre, post |-> post]

\* No AudioPlayer was built, and the AudioPlayer that new() returned.
NoHandle == [st |-> "none", ret |-> "none", cause |-> ""]
LiveHandle == [st |-> "live", ret |-> "Ok", cause |-> ""]

\* ServerProcess: no call in progress. Of the call in progress: its
\* position and result, what is_running() answered, the polls and sleeps of
\* health_check and the answer to its last poll, or to the shutdown
\* request of stop; history: how the wait and the kill of stop ended, the
\* handle and the number of processes when the call began, the part of
\* start_server that is running (its probe, start or health_check), what the call
\* did outside the supervisor, and the call that returned before it.
NoSrv ==
  [op |-> "none", pc |-> "idle", ret |-> "none", running |-> FALSE,
   polls |-> 0, sleeps |-> 0, answer |-> "none", wait |-> "none",
   kill |-> "none", pre |-> 0, n0 |-> 0, stage |-> "none",
   log |-> <<>>, last |-> "none", last_ret |-> "none"]

\* TtsManager::new: the cloud engine is built only from a non-empty key.
CloudEngineBuilt(cfg) == cfg.api_key # None /\ cfg.api_key # ""

\* SystemTtsEngine.backend, as detect_backend finds it on the host.
SystemBackend == {"EspeakNg", "Espeak", "Say", "Sapi", "None"}

\* CloudTtsEngine::new: the voice of the provider when none is given.
DefaultVoice(provider) ==
  CASE provider = "OpenAI" -> "alloy"
    [] provider = "Azure" -> "en-US-JennyNeural"
    [] provider = "Google" -> "en-US-Standard-C"

CloudTtsEngineNew(provider, api_key, voice, endpoint) ==
  [provider |-> provider, api_key |-> api_key,
   voice |-> IF voice # None THEN voice ELSE DefaultVoice(provider),
   endpoint |-> endpoint]

\* TtsManager.cloud_engine when it is None.
NoCloudEngine ==
  [provider |-> "none", api_key |-> "", voice |-> "", endpoint |-> None]

\* TtsManager::new: the three engines, from the configuration and the
\* backend detected; history: the credential of that configuration.
BuildEngines(cfg, backend) ==
  [backend |-> backend,
   model_path |-> cfg.model_path,
   key |-> cfg.api_key,
   cloud |-> IF CloudEngineBuilt(cfg)
               THEN CloudTtsEngineNew(cfg.provider, cfg.api_key, cfg.voice,
                                      cfg.endpoint)
               ELSE NoCloudEngine]

Constructed ==
  /\ config \in EngineConfigs
  /\ state = "Idle"
  /\ player \in BOOLEAN
  /\ cloud_engine = CloudEngineBuilt(config)
  /\ tts_manager = 0
  /\ cmd_rx = <<>>
  /\ resp_rx = <<>>
  /\ resp_rx_lock = 0
  /\ worker_alive = player
  /\ sink = EmptySink
  /\ pc = [t \in Callers |-> "idle"]
  /\ call = [t \in Callers |-> NoCall]
  /\ n_speaks = 0
  /\ n_updates = 0
  /\ issued = {config}
  /\ prev = NoRecord
  /\ last_change = [op |-> "none", ok |-> FALSE]
  /\ handle = IF player THEN LiveHandle ELSE NoHandle
  /\ worker_pc = IF player THEN "loop" ELSE "stream"
  /\ child = 0
  /\ procs = <<>>
  /\ srv = NoSrv
  /\ invocations = <<>>

\* The state after TtsManager::new and ServerProcess::new, on a host where
\* espeak-ng is installed.
Init ==
  /\ Constructed
  /\ config \in TtsConfig
  /\ engines = BuildEngines(config, "EspeakNg")

\* ------------------------------------------------------------ main.rs
\* speak: the engine name given by the frontend, as an EngineType.
EngineFromStr(e) ==
  CASE e = "system" -> "System"
    [] e = "piper" -> "Piper"
    [] e = "cloud" -> "Cloud"
    [] OTHER -> "System"

EngineNames == {"system", "piper", "cloud", "espeak"}

\* The first step of a TtsManager method.
Entry(op) ==
  CASE op = "speak" -> "speak_config"
    [] op \in {"stop", "pause", "resume"} -> "ctl"
    [] OTHER -> op

Begin(t, c, at) ==
  /\ pc[t] = "idle"
  /\ call' = [call EXCEPT ![t] = c]
  /\ pc' = [pc EXCEPT ![t] = at]

\* Variant: the command does not wait for the mutex.
LockWithoutWaiting(t) ==
  /\ tts_manager' = t

\* state.tts_manager.lock().await: a command proceeds once it holds the mutex.
Lock(t) ==
  /\ tts_manager = 0
  /\ tts_manager' = t

\* #[tauri::command] speak(text, engine): builds the request, locks, calls.
CmdSpeak(t, engine) ==
  /\ n_speaks < MaxSpeaks
  /\ Lock(t)
  /\ Begin(t,
       [NoCall EXCEPT !.op = "speak", !.id = n_speaks + 1, !.pre = state,
          !.arg = [NoRequest EXCEPT !.text = "Hello",
                     !.engine = IF engine = None THEN None
                                ELSE EngineFromStr(engine)]],
       Entry("speak"))
  /\ n_speaks' = n_speaks + 1
  /\ UNCHANGED <<lifecycle, server, synthesis>>
  /\ UNCHANGED <<config, state, player, cloud_engine, cmd_rx, resp_rx,
                 resp_rx_lock, worker_alive, sink, n_updates, issued, prev,
                 last_change>>

\* stop_speaking, pause_speaking, resume_speaking, get_playback_state,
\* get_tts_config: lock, then call the method of the same name.
CmdSimple(t, op) ==
  /\ Lock(t)
  /\ Begin(t, [NoCall EXCEPT !.op = op, !.pre = state], Entry(op))
  /\ UNCHANGED <<lifecycle, server, synthesis>>
  /\ UNCHANGED <<config, state, player, cloud_engine, cmd_rx, resp_rx,
                 resp_rx_lock, worker_alive, sink, n_speaks, n_updates,
                 issued, prev, last_change>>

\* update_tts_config, once save_config has succeeded (a failed save returns
\* before the manager is locked or touched: no step of this model).
CmdUpdateConfig(t, c) ==
  /\ n_updates < MaxUpdates
  /\ Lock(t)
  /\ Begin(t,
       [NoCall EXCEPT !.op = "update_config", !.new_config = c,
          !.pre = state],
       Entry("update_config"))
  /\ n_updates' = n_updates + 1
  /\ UNCHANGED <<lifecycle, server, synthesis>>
  /\ UNCHANGED <<config, state, player, cloud_engine, cmd_rx, resp_rx,
                 resp_rx_lock, worker_alive, sink, n_speaks, issued, prev,
                 last_change>>

\* The methods of the AudioPlayer handle, when called on the handle itself.
PlayerOps ==
  {"AudioPlayer::play", "AudioPlayer::stop", "AudioPlayer::pause",
   "AudioPlayer::resume", "AudioPlayer::set_volume"}

\* The call returns. A command drops its MutexGuard and is recorded as the
\* last command returned, and so is a call on the AudioPlayer; a direct call
\* of a method of the orchestrator holds no guard.
Return(t) ==
  /\ pc[t] = "return"
  /\ IF tts_manager = t \/ call[t].op \in PlayerOps
       THEN /\ tts_manager' = 0
            /\ prev' = Record(call[t], state)
            /\ last_change' =
                 IF call[t].writes # <<>>
                   THEN [op |-> call[t].op, ok |-> call[t].ret = "Ok"]
                   ELSE last_change
       ELSE UNCHANGED <<tts_manager, prev, last_change>>
  /\ call' = [call EXCEPT ![t] = NoCall]
  /\ pc' = [pc EXCEPT ![t] = "idle"]
  /\ UNCHANGED <<lifecycle, server, synthesis>>
  /\ UNCHANGED <<config, state, player, cloud_engine, cmd_rx, resp_rx,
                 resp_rx_lock, worker_alive, sink, n_speaks, n_updates,
                 issued>>

\* A caller holding a reference to the TtsManager calls a method directly.
DirectSpeak(t, req) ==
  /\ n_speaks < MaxDirectSpeaks
  /\ Begin(t,
       [NoCall EXCEPT !.op = "speak", !.id = n_speaks + 1, !.arg = req],
       Entry("speak"))
  /\ n_speaks' = n_speaks + 1
  /\ UNCHANGED <<lifecycle, server, synthesis>>
  /\ UNCHANGED <<config, state, player, cloud_engine, tts_manager, cmd_rx,
                 resp_rx, resp_rx_lock, worker_alive, sink, n_updates,
                 issued, prev, last_change>>

DirectSimple(t, op) ==
  /\ Begin(t, [NoCall EXCEPT !.op = op], Entry(op))
  /\ UNCHANGED <<lifecycle, server, synthesis>>
  /\ UNCHANGED <<config, state, player, cloud_engine, tts_manager, cmd_rx,
                 resp_rx, resp_rx_lock, worker_alive, sink, n_speaks,
                 n_updates, issued, prev, last_change>>

DirectUpdateConfig(t, c) ==
  /\ n_updates < MaxUpdates
  /\ Begin(t,
       [NoCall EXCEPT !.op = "update_config", !.new_config = c],
       Entry("update_config"))
  /\ n_updates' = n_updates + 1
  /\ UNCHANGED <<lifecycle, server, synthesis>>
  /\ UNCHANGED <<config, state, player, cloud_engine, tts_manager, cmd_rx,
                 resp_rx, resp_rx_lock, worker_alive, sink, n_speaks,
                 issued, prev, last_change>>

\* ------------------------------------------------------------ tts/manager.rs
audio == <<cmd_rx, resp_rx, resp_rx_lock, worker_alive, sink>>
built == <<player, cloud_engine, tts_manager, n_speaks, n_updates>>
returned == <<prev, last_change>>
manager == <<config, state, player, cloud_engine, tts_manager, n_speaks,
             n_updates, issued, prev, last_change>>

\* speak: request.engine.unwrap_or(config.active_engine)
ResolveEngine(req, cfg) ==
  IF req.engine # None THEN req.engine ELSE cfg.active_engine

\* Variant: the configured rate replaces the caller's rate.
MergeDefaultsRateFromConfig(req, cfg) ==
  [req EXCEPT
     !.rate = cfg.default_rate,
     !.pitch = IF req.pitch # NoneF THEN req.pitch ELSE cfg.default_pitch,
     !.volume = IF req.volume # NoneF THEN req.volume
                ELSE cfg.default_volume]

\* speak: rate, pitch and volume, each unwrap_or the default of the config.
MergeDefaults(req, cfg) ==
  [req EXCEPT
     !.rate = IF req.rate # NoneF THEN req.rate ELSE cfg.default_rate,
     !.pitch = IF req.pitch # NoneF THEN req.pitch ELSE cfg.default_pitch,
     !.volume = IF req.volume # NoneF THEN req.volume
                ELSE cfg.default_volume]

\* speak, under the config lock: engine and defaults from one snapshot.
SpeakConfig(t) ==
  /\ pc[t] = "speak_config"
  /\ call' = [call EXCEPT
       ![t].engine_type = ResolveEngine(call[t].arg, config),
       ![t].request = MergeDefaults(call[t].arg, config),
       ![t].snap = config]
  /\ pc' = [pc EXCEPT ![t] = "speak_mark"]
  /\ UNCHANGED <<lifecycle, server, synthesis>>
  /\ UNCHANGED <<config, state, issued, audio, built, returned>>

\* Variant: the guard of the command is given up once Synthesizing is
\* written, for the time of the synthesis.
SpeakMarkReleases(t) ==
  /\ pc[t] = "speak_mark"
  /\ state' = "Synthesizing"
  /\ tts_manager' = 0
  /\ call' = [call EXCEPT ![t].writes = Append(@, "Synthesizing")]
  /\ pc' = [pc EXCEPT ![t] = "speak_engine"]
  /\ UNCHANGED <<lifecycle, server, synthesis>>
  /\ UNCHANGED <<config, issued, audio, player, cloud_engine, n_speaks,
                 n_updates, returned>>

\* speak: *self.state.lock().await = PlaybackState::Synthesizing
SpeakMark(t) ==
  /\ pc[t] = "speak_mark"
  /\ state' = "Synthesizing"
  /\ call' = [call EXCEPT ![t].writes = Append(@, "Synthesizing")]
  /\ pc' = [pc EXCEPT ![t] = "speak_engine"]
  /\ UNCHANGED <<lifecycle, server, synthesis>>
  /\ UNCHANGED <<config, issued, audio, built, returned>>

\* speak: dispatch on engine_type; Cloud without a cloud engine fails here.
SpeakEngine(t) ==
  /\ pc[t] = "speak_engine"
  /\ IF call[t].engine_type = "Cloud" /\ ~cloud_engine
       THEN /\ call' = [call EXCEPT ![t].result =
                 [NoResult EXCEPT !.tag = "Err",
                                  !.err = "Cloud TTS not configured"]]
            /\ pc' = [pc EXCEPT ![t] = "speak_match"]
       ELSE /\ call' = [call EXCEPT ![t].invoked = call[t].engine_type]
            /\ pc' = [pc EXCEPT ![t] = "synthesize"]
  /\ UNCHANGED <<lifecycle, server, synthesis>>
  /\ UNCHANGED <<config, state, issued, audio, built, returned>>

\* The awaited engine.synthesize(&request) resolves, with audio or an error.
Synthesize(t, ok, decodable) ==
  /\ pc[t] = "synthesize"
  /\ call' = [call EXCEPT ![t].result =
       IF ok THEN [NoResult EXCEPT !.tag = "Ok",
                     !.audio = [id |-> call[t].id, decodable |-> decodable]]
       ELSE [NoResult EXCEPT !.tag = "Err", !.err = "synthesis failed"]]
  /\ pc' = [pc EXCEPT ![t] = "speak_match"]
  /\ UNCHANGED <<lifecycle, server, synthesis>>
  /\ UNCHANGED <<config, state, issued, audio, built, returned>>

\* Variant: a synthesized buffer is marked Playing but never forwarded.
SpeakMatchWithoutPlay(t) ==
  /\ pc[t] = "speak_match"
  /\ IF call[t].result.tag = "Ok"
       THEN IF player
              THEN /\ state' = "Playing"
                   /\ call' = [call EXCEPT ![t].ret = "Ok",
                                 ![t].writes = Append(@, "Playing")]
                   /\ pc' = [pc EXCEPT ![t] = "return"]
              ELSE /\ state' = "Error"
                   /\ call' = [call EXCEPT
                        ![t].ret = "No audio output device available",
                        ![t].writes = Append(@, "Error")]
                   /\ pc' = [pc EXCEPT ![t] = "return"]
       ELSE /\ state' = "Error"
            /\ call' = [call EXCEPT ![t].ret = call[t].result.err,
                          ![t].writes = Append(@, "Error")]
            /\ pc' = [pc EXCEPT ![t] = "return"]
  /\ UNCHANGED <<lifecycle, server, synthesis>>
  /\ UNCHANGED <<config, issued, audio, built, returned>>

\* Variant: a failed synthesis returns the error without marking Error.
SpeakMatchErrorUnmarked(t) ==
  /\ pc[t] = "speak_match"
  /\ IF call[t].result.tag = "Ok"
       THEN IF player
              THEN /\ state' = "Playing"
                   /\ call' = [call EXCEPT ![t].cmd = "Play",
                                 ![t].writes = Append(@, "Playing")]
                   /\ pc' = [pc EXCEPT ![t] = "send"]
              ELSE /\ state' = "Error"
                   /\ call' = [call EXCEPT
                        ![t].ret = "No audio output device available",
                        ![t].writes = Append(@, "Error")]
                   /\ pc' = [pc EXCEPT ![t] = "return"]
       ELSE /\ call' = [call EXCEPT ![t].ret = call[t].result.err]
            /\ pc' = [pc EXCEPT ![t] = "return"]
            /\ UNCHANGED state
  /\ UNCHANGED <<lifecycle, server, synthesis>>
  /\ UNCHANGED <<config, issued, audio, built, returned>>

\* speak: match result; the state written before play or before returning.
SpeakMatch(t) ==
  /\ pc[t] = "speak_match"
  /\ IF call[t].result.tag = "Ok"
       THEN IF player
              THEN /\ state' = "Playing"
                   /\ call' = [call EXCEPT ![t].cmd = "Play",
                                 ![t].writes = Append(@, "Playing")]
                   /\ pc' = [pc EXCEPT ![t] = "send"]
              ELSE /\ state' = "Error"
                   /\ call' = [call EXCEPT
                        ![t].ret = "No audio output device available",
                        ![t].writes = Append(@, "Error")]
                   /\ pc' = [pc EXCEPT ![t] = "return"]
       ELSE /\ state' = "Error"
            /\ call' = [call EXCEPT ![t].ret = call[t].result.err,
                          ![t].writes = Append(@, "Error")]
            /\ pc' = [pc EXCEPT ![t] = "return"]
  /\ UNCHANGED <<lifecycle, server, synthesis>>
  /\ UNCHANGED <<config, issued, audio, built, returned>>

\* Variant: pause sends the command of stop.
CommandOfPauseStops(op) ==
  CASE op = "stop" -> "Stop"
    [] op = "pause" -> "Stop"
    [] op = "resume" -> "Resume"

\* The command that stop, pause and resume send to the player.
CommandOf(op) ==
  CASE op = "stop" -> "Stop"
    [] op = "pause" -> "Pause"
    [] op = "resume" -> "Resume"

\* The state that stop, pause and resume write last.
StateAfter(op) ==
  CASE op = "stop" -> "Idle"
    [] op = "pause" -> "Paused"
    [] op = "resume" -> "Playing"

\* Variant: without a player, stop, pause and resume fail as speak does.
ControlNeedsPlayer(t) ==
  /\ pc[t] = "ctl"
  /\ IF player
       THEN /\ call' = [call EXCEPT ![t].cmd = CommandOf(call[t].op)]
            /\ pc' = [pc EXCEPT ![t] = "send"]
            /\ UNCHANGED state
       ELSE /\ state' = "Error"
            /\ call' = [call EXCEPT
                 ![t].ret = "No audio output device available",
                 ![t].writes = Append(@, "Error")]
            /\ pc' = [pc EXCEPT ![t] = "return"]
  /\ UNCHANGED <<lifecycle, server, synthesis>>
  /\ UNCHANGED <<config, issued, audio, built, returned>>

\* stop, pause, resume: if let Some(ref p) = self.player { p.<op>()?; }
Control(t) ==
  /\ pc[t] = "ctl"
  /\ IF player
       THEN /\ call' = [call EXCEPT ![t].cmd = CommandOf(call[t].op)]
            /\ pc' = [pc EXCEPT ![t] = "send"]
       ELSE /\ pc' = [pc EXCEPT ![t] = "ctl_state"]
            /\ UNCHANGED call
  /\ UNCHANGED <<lifecycle, server, synthesis>>
  /\ UNCHANGED <<config, state, issued, audio, built, returned>>

\* Variant: the state is written only when something was playing or paused.
ControlStateIfActive(t) ==
  /\ pc[t] = "ctl_state"
  /\ state' = IF state \in {"Playing", "Paused"}
                THEN StateAfter(call[t].op) ELSE state
  /\ call' = [call EXCEPT ![t].ret = "Ok",
                ![t].writes = Append(@, StateAfter(call[t].op))]
  /\ pc' = [pc EXCEPT ![t] = "return"]
  /\ UNCHANGED <<lifecycle, server, synthesis>>
  /\ UNCHANGED <<config, issued, audio, built, returned>>

\* Variant: stop also abandons every synthesis in flight.
ControlStateCancels(t) ==
  /\ pc[t] = "ctl_state"
  /\ state' = StateAfter(call[t].op)
  /\ call' = [u \in Callers |->
       IF u = t
         THEN [call[u] EXCEPT !.ret = "Ok",
                 !.writes = Append(@, StateAfter(call[t].op))]
       ELSE IF pc[u] = "synthesize" /\ call[t].op = "stop"
         THEN [call[u] EXCEPT !.ret = "cancelled"]
       ELSE call[u]]
  /\ pc' = [u \in Callers |->
       IF u = t THEN "return"
       ELSE IF pc[u] = "synthesize" /\ call[t].op = "stop" THEN "return"
       ELSE pc[u]]
  /\ UNCHANGED <<lifecycle, server, synthesis>>
  /\ UNCHANGED <<config, issued, audio, built, returned>>

\* Variant: pause is applied to Playing only and resume to Paused only, as
\* in a table of transitions; elsewhere the state is left as it is.
ControlStateByTable(t) ==
  /\ pc[t] = "ctl_state"
  /\ state' = CASE call[t].op = "pause" /\ state # "Playing" -> state
                 [] call[t].op = "resume" /\ state # "Paused" -> state
                 [] OTHER -> StateAfter(call[t].op)
  /\ call' = [call EXCEPT ![t].ret = "Ok",
                ![t].writes = Append(@, StateAfter(call[t].op))]
  /\ pc' = [pc EXCEPT ![t] = "return"]
  /\ UNCHANGED <<lifecycle, server, synthesis>>
  /\ UNCHANGED <<config, issued, audio, built, returned>>

\* stop, pause, resume: the write of the state, then Ok(()).
ControlState(t) ==
  /\ pc[t] = "ctl_state"
  /\ state' = StateAfter(call[t].op)
  /\ call' = [call EXCEPT ![t].ret = "Ok",
                ![t].writes = Append(@, StateAfter(call[t].op))]
  /\ pc' = [pc EXCEPT ![t] = "return"]
  /\ UNCHANGED <<lifecycle, server, synthesis>>
  /\ UNCHANGED <<config, issued, audio, built, returned>>

GetState(t) ==
  /\ pc[t] = "get_state"
  /\ call' = [call EXCEPT ![t].ret = state]
  /\ pc' = [pc EXCEPT ![t] = "return"]
  /\ UNCHANGED <<lifecycle, server, synthesis>>
  /\ UNCHANGED <<config, state, issued, audio, built, returned>>

\* Variant: the engine selector and the rate are updated in place, the
\* other defaults are left as they were.
StoreConfigInPlace(old, new) ==
  [old EXCEPT !.active_engine = new.active_engine,
              !.default_rate = new.default_rate]

\* update_config: what the assignment leaves in self.config.
StoreConfig(old, new) == new

\* Variant: the cloud engine is built again from the new configuration.
UpdateConfigRebuilds(t) ==
  /\ pc[t] = "update_config"
  /\ config' = StoreConfig(config, call[t].new_config)
  /\ issued' = issued \cup {call[t].new_config}
  /\ cloud_engine' = CloudEngineBuilt(call[t].new_config)
  /\ engines' = [BuildEngines(call[t].new_config, engines.backend)
                  EXCEPT !.key = engines.key]
  /\ call' = [call EXCEPT ![t].ret = "Ok"]
  /\ pc' = [pc EXCEPT ![t] = "return"]
  /\ UNCHANGED <<lifecycle, server, invocations>>
  /\ UNCHANGED <<state, audio, player, tts_manager, n_speaks, n_updates,
                 returned>>

UpdateConfig(t) ==
  /\ pc[t] = "update_config"
  /\ config' = StoreConfig(config, call[t].new_config)
  /\ issued' = issued \cup {call[t].new_config}
  /\ call' = [call EXCEPT ![t].ret = "Ok"]
  /\ pc' = [pc EXCEPT ![t] = "return"]
  /\ UNCHANGED <<lifecycle, server, synthesis>>
  /\ UNCHANGED <<state, audio, built, returned>>

\* Variant: the defaults returned are those of a new configuration.
GetConfigResetsDefaults(t) ==
  /\ pc[t] = "get_config"
  /\ call' = [call EXCEPT ![t].ret = "Ok",
       ![t].snap = [config EXCEPT
                      !.default_rate = DefaultConfig.default_rate,
                      !.default_pitch = DefaultConfig.default_pitch,
                      !.default_volume = DefaultConfig.default_volume]]
  /\ pc' = [pc EXCEPT ![t] = "return"]
  /\ UNCHANGED <<lifecycle, server, synthesis>>
  /\ UNCHANGED <<config, state, issued, audio, built, returned>>

\* get_config: self.config.lock().await.clone()
GetConfig(t) ==
  /\ pc[t] = "get_config"
  /\ call' = [call EXCEPT ![t].ret = "Ok", ![t].snap = config]
  /\ pc' = [pc EXCEPT ![t] = "return"]
  /\ UNCHANGED <<lifecycle, server, synthesis>>
  /\ UNCHANGED <<config, state, issued, audio, built, returned>>

\* ------------------------------------------------------------ f32
\* The canonical rate and pitch are f32. An f32 between 0.5 and 2.0, and
\* every intermediate value of the mappings below, is written here as an
\* integer number of units of 2^-24.
One == 2^24

Abs(n) == IF n < 0 THEN 0 - n ELSE n

\* n / d for n >= 0, rounded to the nearest integer, ties to even.
RoundDiv(n, d) ==
  LET q == n \div d
      r == n % d
  IN  IF 2 * r > d \/ (2 * r = d /\ q % 2 = 1) THEN q + 1 ELSE q

\* The f32 nearest to r tenths, for 0.5 <= r / 10 <= 2.0: 24 significant
\* bits, so a multiple of 2^-24 below 1.0 and of 2^-23 from 1.0 on.
F32(r) ==
  IF r < 10 THEN RoundDiv(r * One, 10)
  ELSE 2 * RoundDiv(r * (One \div 2), 10)

\* The bits that n has beyond 24 significant ones.
ExcessBits(a) ==
  CHOOSE k \in 0..7 :
    a \div One < 2^k /\ (k > 0 => a \div One >= 2^(k - 1))

\* The result of an f32 operation whose exact value is n: n rounded to 24
\* significant bits, ties to even.
F32Round(n) ==
  LET k == ExcessBits(Abs(n))
      m == RoundDiv(Abs(n), 2^k) * 2^k
  IN  IF n < 0 THEN 0 - m ELSE m

\* Variant: the sign is dropped with the fraction.
AsI32Magnitude(x) == Abs(x) \div One

\* x as i32: the fraction is dropped, towards zero.
AsI32(x) == IF x < 0 THEN 0 - ((0 - x) \div One) ELSE x \div One

\* (175.0 * x) as u32, for 0.5 <= x <= 2.0. The exact product, of up to 33
\* bits, is kept in two parts, hi * 4096 + lo; it lies between 64 and 512,
\* where an f32 is a multiple of 2^-17, 2^-16 or 2^-15: the product is
\* rounded to that, ties to even, and its fraction is dropped.
Times175AsU32(x) ==
  LET h == x \div 4096
      l == x % 4096
      hi == 175 * h + (175 * l) \div 4096
      lo == (175 * l) % 4096
      k == IF hi < 2^19 THEN 7 ELSE IF hi < 2^20 THEN 8 ELSE 9
      q == hi * 2^(12 - k) + lo \div 2^k
      r == lo % 2^k
      up == 2 * r > 2^k \/ (2 * r = 2^k /\ q % 2 = 1)
  IN  (IF up THEN q + 1 ELSE q) \div 2^(24 - k)

\* ------------------------------------------------------------ tts engines
\* What an engine runs for a request: the program or the URL, and what it is
\* given of the request. A control that is not passed on is <<>>, one that
\* is passed on is <<its native value>>.
NoNative ==
  [program |-> "none", model |-> None, voice |-> <<>>, rate |-> <<>>,
   pitch |-> <<>>, volume |-> <<>>, text |-> ""]

\* What synthesize has decided before it waits for anything: to run a
\* native invocation, or to return an error without running one.
Run(native) == [tag |-> "Run", err |-> "", native |-> native]

Refuse(err) == [tag |-> "Err", err |-> err, native |-> NoNative]

\* request.rate.unwrap_or(1.0), as f32; pitch alike.
UnwrapOr1(v) == IF v # NoneF THEN F32(v) ELSE One

\* if let Some(ref voice) = request.voice { args.push(..) }
VoiceArg(req) == IF req.voice # None THEN <<req.voice>> ELSE <<>>

\* SystemTtsEngine::synthesize: espeak-ng or espeak with -s wpm, say with
\* -r wpm, SAPI with $synth.Rate; pitch and volume are read and not used.
SystemSynthesize(backend, req) ==
  CASE backend \in {"EspeakNg", "Espeak"} ->
         Run([NoNative EXCEPT
                !.program = IF backend = "EspeakNg" THEN "espeak-ng"
                            ELSE "espeak",
                !.voice = VoiceArg(req),
                !.rate = <<Times175AsU32(UnwrapOr1(req.rate))>>,
                !.text = req.text])
    [] backend = "Say" ->
         Run([NoNative EXCEPT
                !.program = "say",
                !.voice = VoiceArg(req),
                !.rate = <<Times175AsU32(UnwrapOr1(req.rate))>>,
                !.text = req.text])
    [] backend = "Sapi" ->
         Run([NoNative EXCEPT
                !.program = "powershell",
                !.voice = VoiceArg(req),
                !.rate = <<AsI32(F32Round((UnwrapOr1(req.rate) - One) * 10))>>,
                !.text = req.text])
    [] backend = "None" -> Refuse("No system TTS backend available")

\* The files of the host: model.exists().
Files == {"/models/voice.onnx"}

\* Variant: the model is left for piper itself to look for.
PiperSynthesizeUnchecked(model_path, req) ==
  Run([NoNative EXCEPT !.program = "piper",
         !.model = IF model_path = None THEN "" ELSE model_path,
         !.text = req.text])

\* PiperTtsEngine::synthesize: the two checks of the model, then piper with
\* --model and the text on its standard input.
PiperSynthesize(model_path, req) ==
  IF model_path = None THEN Refuse("No Piper model configured")
  ELSE IF model_path \notin Files THEN Refuse("Piper model not found")
  ELSE Run([NoNative EXCEPT !.program = "piper", !.model = model_path,
              !.text = req.text])

\* request.voice.as_deref().unwrap_or(&self.voice)
VoiceOr(req, engine) ==
  IF req.voice # None THEN <<req.voice>> ELSE <<engine.voice>>

\* CloudTtsEngine::synthesize: the request body of each provider. OpenAI is
\* given the rate as speed; Azure the rate and the pitch in percent, as
\* integers; Google the rate, and the pitch in semitones.
CloudSynthesize(engine, req) ==
  CASE engine.provider = "OpenAI" ->
         Run([NoNative EXCEPT
                !.program = IF engine.endpoint # None THEN engine.endpoint
                            ELSE "https://api.openai.com/v1/audio/speech",
                !.voice = VoiceOr(req, engine),
                !.rate = <<UnwrapOr1(req.rate)>>,
                !.text = req.text])
    [] engine.provider = "Azure" ->
         IF engine.endpoint = None
           THEN Refuse("Azure TTS requires an endpoint")
           ELSE Run([NoNative EXCEPT
                  !.program = engine.endpoint,
                  !.voice = VoiceOr(req, engine),
                  !.rate =
                    <<AsI32(F32Round((UnwrapOr1(req.rate) - One) * 100))>>,
                  !.pitch =
                    <<AsI32(F32Round((UnwrapOr1(req.pitch) - One) * 50))>>,
                  !.text = req.text])
    [] engine.provider = "Google" ->
         Run([NoNative EXCEPT
                !.program = "https://texttospeech.googleapis.com/v1/text:synthesize",
                !.voice = VoiceOr(req, engine),
                !.rate = <<UnwrapOr1(req.rate)>>,
                !.pitch = <<F32Round((UnwrapOr1(req.pitch) - One) * 10)>>,
                !.text = req.text])

\* Variant: an engine built with an empty key counts as available.
CloudIsAvailableAlways(engine) == TRUE

\* CloudTtsEngine::is_available: !self.api_key.is_empty()
CloudIsAvailable(engine) == engine.api_key # ""

\* SystemTtsEngine::is_available
SystemIsAvailable(backend) == backend # "None"

\* speak and the engine's own callers: the synthesize of the variant.
EngineSynthesize(e, eng, req) ==
  CASE e = "System" -> SystemSynthesize(eng.backend, req)
    [] e = "Piper" -> PiperSynthesize(eng.model_path, req)
    [] e = "Cloud" -> CloudSynthesize(eng.cloud, req)

\* History: one call of synthesize, with what it decided to run.
Invoked(e, req) ==
  [engine |-> e, request |-> req, built |-> EngineSynthesize(e, engines, req)]

\* Variant: a synthesis that fails is tried again on the system engine.
SpeakSynthesizeFallsBack(t, ok, decodable) ==
  /\ pc[t] = "synthesize"
  /\ LET b == EngineSynthesize(call[t].engine_type, engines, call[t].request)
         first == Invoked(call[t].engine_type, call[t].request)
     IN  /\ decodable => ok
         /\ ok => b.tag = "Run"
         /\ call' = [call EXCEPT ![t].result =
              IF ok
                THEN [NoResult EXCEPT !.tag = "Ok",
                        !.audio = [id |-> call[t].id,
                                   decodable |-> decodable]]
              ELSE [NoResult EXCEPT !.tag = "Err",
                                    !.err = "synthesis failed"]]
         /\ invocations' =
              IF ok THEN Append(invocations, first)
              ELSE Append(Append(invocations, first),
                          Invoked("System", call[t].request))
  /\ pc' = [pc EXCEPT ![t] = "speak_match"]
  /\ UNCHANGED <<engines, lifecycle, server>>
  /\ UNCHANGED <<config, state, issued, audio, built, returned>>

\* speak: engine.synthesize(&request).await on the engine resolved. An
\* engine that refuses returns its error; one that runs its program or its
\* HTTP request returns what comes of it, audio or an error.
SpeakSynthesize(t, ok, decodable) ==
  /\ pc[t] = "synthesize"
  /\ LET b == EngineSynthesize(call[t].engine_type, engines, call[t].request)
     IN  /\ decodable => ok
         /\ ok => b.tag = "Run"
         /\ call' = [call EXCEPT ![t].result =
              IF b.tag = "Err"
                THEN [NoResult EXCEPT !.tag = "Err", !.err = b.err]
              ELSE IF ok
                THEN [NoResult EXCEPT !.tag = "Ok",
                        !.audio = [id |-> call[t].id,
                                   decodable |-> decodable]]
              ELSE [NoResult EXCEPT !.tag = "Err",
                                    !.err = "synthesis failed"]]
  /\ invocations' =
       Append(invocations, Invoked(call[t].engine_type, call[t].request))
  /\ pc' = [pc EXCEPT ![t] = "speak_match"]
  /\ UNCHANGED <<engines, lifecycle, server>>
  /\ UNCHANGED <<config, state, issued, audio, built, returned>>

\* #[tauri::command] list_voices(engine), for an engine name it knows.
CmdListVoices(t, e) ==
  /\ Lock(t)
  /\ Begin(t,
       [NoCall EXCEPT !.op = "list_voices", !.engine_type = e, !.pre = state],
       Entry("list_voices"))
  /\ UNCHANGED <<lifecycle, server, synthesis>>
  /\ UNCHANGED <<config, state, player, cloud_engine, cmd_rx, resp_rx,
                 resp_rx_lock, worker_alive, sink, n_speaks, n_updates,
                 issued, prev, last_change>>

\* Variant: a listing that fails marks the playback state.
ListVoicesMarksError(t, ok) ==
  /\ pc[t] = "list_voices"
  /\ ok \/ (call[t].engine_type = "System" /\ engines.backend # "None")
  /\ call' = [call EXCEPT ![t].ret =
       IF ok THEN "Ok" ELSE "list_voices failed"]
  /\ state' = IF ok THEN state ELSE "Error"
  /\ pc' = [pc EXCEPT ![t] = "return"]
  /\ UNCHANGED <<lifecycle, server, synthesis>>
  /\ UNCHANGED <<config, issued, audio, built, returned>>

\* TtsManager::list_voices: the system engine asks its backend, which can
\* fail; Piper names its model and Cloud its fixed voices, or none without
\* a cloud engine.
ListVoices(t, ok) ==
  /\ pc[t] = "list_voices"
  /\ ok \/ (call[t].engine_type = "System" /\ engines.backend # "None")
  /\ call' = [call EXCEPT ![t].ret =
       IF ok THEN "Ok" ELSE "list_voices failed"]
  /\ pc' = [pc EXCEPT ![t] = "return"]
  /\ UNCHANGED <<lifecycle, server, synthesis>>
  /\ UNCHANGED <<config, state, issued, audio, built, returned>>

\* get_available_engines: the engines that answer is_available with true;
\* piper is what running the piper binary with --help comes to.
AvailableEngines(eng, has_cloud, piper) ==
  {e \in EngineType :
     \/ e = "System" /\ SystemIsAvailable(eng.backend)
     \/ e = "Piper" /\ piper
     \/ e = "Cloud" /\ has_cloud /\ CloudIsAvailable(eng.cloud)}

GetAvailableEngines(t, piper) ==
  /\ pc[t] = "get_available_engines"
  /\ call' = [call EXCEPT
       ![t].available = AvailableEngines(engines, cloud_engine, piper),
       ![t].ret = "Ok"]
  /\ pc' = [pc EXCEPT ![t] = "return"]
  /\ UNCHANGED <<lifecycle, server, synthesis>>
  /\ UNCHANGED <<config, state, issued, audio, built, returned>>

\* The canonical range of rate and pitch, in tenths.
Grid == 5..20

BaseRequest ==
  [NoRequest EXCEPT !.text = "Hello", !.voice = "en-us", !.rate = 10,
                    !.pitch = 10, !.volume = 10]

\* Requests given to an engine: nothing provided; everything provided; and
\* everything provided with one of the four varied.
EngineRequests ==
  {[NoRequest EXCEPT !.text = "Hello"], BaseRequest,
   [BaseRequest EXCEPT !.voice = "en-gb"]}
  \cup {[BaseRequest EXCEPT !.rate = r] : r \in Grid}
  \cup {[BaseRequest EXCEPT !.pitch = p] : p \in Grid}
  \cup {[BaseRequest EXCEPT !.volume = v] : v \in {0, 5}}

Controls == {"voice", "rate", "pitch", "volume"}

DiffersInOne(a, b) ==
  /\ a.text = b.text
  /\ Cardinality({f \in Controls : a[f] # b[f]}) = 1

\* engine.synthesize(&request) called on an engine of the orchestrator, up
\* to the point where it runs its program or request. After the first
\* call, each is on the same engine, with a request that differs from the
\* one before in one of the four controls.
CallSynthesize(e, req) ==
  /\ Len(invocations) < MaxInvocations
  /\ e = "Cloud" => cloud_engine
  /\ invocations # <<>> =>
       /\ invocations[Len(invocations)].engine = e
       /\ DiffersInOne(invocations[Len(invocations)].request, req)
  /\ invocations' = Append(invocations, Invoked(e, req))
  /\ UNCHANGED <<engines, manager, audio, lifecycle, pc, call, server>>

\* ------------------------------------------------------------ tts/player.rs
\* PlayerCommand: Play carries the bytes, SetVolume the volume.
Command(kind, bytes) == [kind |-> kind, audio |-> bytes, volume |-> NoneF]

VolumeCommand(v) == [Command("SetVolume", NoAudio) EXCEPT !.volume = v]

\* PlayerResponse, with the command it answers (history).
Response(r, cmd) == [resp |-> r, of |-> cmd]

\* play, stop, pause, resume, set_volume: the command each hands to send_cmd.
CommandFor(c) ==
  IF c.cmd = "Play" THEN Command("Play", c.result.audio)
  ELSE IF c.cmd = "SetVolume" THEN VolumeCommand(c.arg.volume)
  ELSE Command(c.cmd, NoAudio)

\* The caller's continuation once send_cmd has returned r; a is the command
\* the response received answers (history), none when nothing was received.
AfterSendCmd(t, r, a) ==
  IF r = "Ok" /\ call[t].op \in {"stop", "pause", "resume"}
    THEN /\ call' = [call EXCEPT ![t].resp = r, ![t].answers = a]
         /\ pc' = [pc EXCEPT ![t] = "ctl_state"]
    ELSE /\ call' = [call EXCEPT ![t].resp = r, ![t].ret = r,
                       ![t].answers = a]
         /\ pc' = [pc EXCEPT ![t] = "return"]

\* Variant: a command that cannot be sent is sent again.
SendRetrying(t) ==
  /\ pc[t] = "send"
  /\ IF worker_alive
       THEN /\ cmd_rx' = Append(cmd_rx, CommandFor(call[t]))
            /\ call' = [call EXCEPT ![t].sent = Append(@, CommandFor(call[t]))]
            /\ pc' = [pc EXCEPT ![t] = "rx_lock"]
       ELSE /\ call' = [call EXCEPT ![t].sent = <<CommandFor(call[t])>>]
            /\ UNCHANGED <<cmd_rx, pc>>
  /\ UNCHANGED <<lifecycle, server, synthesis>>
  /\ UNCHANGED <<config, state, issued, resp_rx, resp_rx_lock, worker_alive,
                 sink, built, returned>>

\* send_cmd: self.cmd_tx.send(cmd), failing once the receiver is gone.
Send(t) ==
  /\ pc[t] = "send"
  /\ IF worker_alive
       THEN /\ cmd_rx' = Append(cmd_rx, CommandFor(call[t]))
            /\ call' = [call EXCEPT ![t].sent = Append(@, CommandFor(call[t]))]
            /\ pc' = [pc EXCEPT ![t] = "rx_lock"]
       ELSE /\ AfterSendCmd(t, "Audio player thread not responding", <<>>)
            /\ UNCHANGED cmd_rx
  /\ UNCHANGED <<lifecycle, server, synthesis>>
  /\ UNCHANGED <<config, state, issued, resp_rx, resp_rx_lock, worker_alive,
                 sink, built, returned>>

\* send_cmd: self.resp_rx.lock()
RxLock(t) ==
  /\ pc[t] = "rx_lock"
  /\ resp_rx_lock = 0
  /\ resp_rx_lock' = t
  /\ pc' = [pc EXCEPT ![t] = "recv"]
  /\ UNCHANGED <<lifecycle, server, synthesis>>
  /\ UNCHANGED <<config, state, issued, call, cmd_rx, resp_rx, worker_alive,
                 sink, built, returned>>

\* send_cmd: rx.recv(), one response or the closed channel; the guard drops.
Recv(t) ==
  /\ pc[t] = "recv"
  /\ \/ /\ resp_rx # <<>>
        /\ resp_rx' = Tail(resp_rx)
        /\ AfterSendCmd(t, Head(resp_rx).resp, <<Head(resp_rx).of>>)
     \/ /\ resp_rx = <<>>
        /\ ~worker_alive
        /\ UNCHANGED resp_rx
        /\ AfterSendCmd(t, "Audio player thread died", <<>>)
  /\ resp_rx_lock' = 0
  /\ UNCHANGED <<lifecycle, server, synthesis>>
  /\ UNCHANGED <<config, state, issued, cmd_rx, worker_alive, sink,
                 built, returned>>

\* rodio's Sink, as the worker uses it: stop empties the queue, append adds
\* a sound at its end, play and pause clear and set the paused flag.
SinkStop(s) == [s EXCEPT !.queue = <<>>]
SinkAppend(s, id) == [s EXCEPT !.queue = Append(@, id)]
SinkPlay(s) == [s EXCEPT !.paused = FALSE]
SinkPause(s) == [s EXCEPT !.paused = TRUE]

\* vol.clamp(0.0, 1.0)
Clamp(v) == IF v < 0 THEN 0 ELSE IF v > 10 THEN 10 ELSE v

\* Variant: the new sound is appended behind the one still playing.
PlaySoundQueued(s, a) == SinkPlay(SinkAppend(s, a.id))

\* Play of decoded bytes: sink.stop(); sink.append(source); sink.play()
PlaySound(s, a) == SinkPlay(SinkAppend(SinkStop(s), a.id))

\* What the worker does with one command: the sink afterwards, the
\* responses it sends, and whether it leaves the loop.
Handled(s, resps, exit) == [sink |-> s, resps |-> resps, exit |-> exit]

\* Variant: SetVolume is applied without an answer.
HandleVolumeUnanswered(cmd, s) ==
  CASE cmd.kind = "Play" ->
         IF cmd.audio.decodable
           THEN Handled(PlaySound(s, cmd.audio), <<"Ok">>, FALSE)
           ELSE Handled(s, <<"Failed to decode audio">>, FALSE)
    [] cmd.kind = "Stop" -> Handled(SinkStop(s), <<"Ok">>, FALSE)
    [] cmd.kind = "Pause" -> Handled(SinkPause(s), <<"Ok">>, FALSE)
    [] cmd.kind = "Resume" -> Handled(SinkPlay(s), <<"Ok">>, FALSE)
    [] cmd.kind = "SetVolume" ->
         Handled([s EXCEPT !.volume = Clamp(cmd.volume)], <<>>, FALSE)
    [] cmd.kind = "Shutdown" -> Handled(SinkStop(s), <<"Ok">>, TRUE)

\* Variant: a decode failure is answered and ends the loop.
HandleDecodeErrorExits(cmd, s) ==
  CASE cmd.kind = "Play" ->
         IF cmd.audio.decodable
           THEN Handled(PlaySound(s, cmd.audio), <<"Ok">>, FALSE)
           ELSE Handled(s, <<"Failed to decode audio">>, TRUE)
    [] cmd.kind = "Stop" -> Handled(SinkStop(s), <<"Ok">>, FALSE)
    [] cmd.kind = "Pause" -> Handled(SinkPause(s), <<"Ok">>, FALSE)
    [] cmd.kind = "Resume" -> Handled(SinkPlay(s), <<"Ok">>, FALSE)
    [] cmd.kind = "SetVolume" ->
         Handled([s EXCEPT !.volume = Clamp(cmd.volume)], <<"Ok">>, FALSE)
    [] cmd.kind = "Shutdown" -> Handled(SinkStop(s), <<"Ok">>, TRUE)

\* Variant: Shutdown is answered but the loop goes on.
HandleShutdownStays(cmd, s) ==
  CASE cmd.kind = "Play" ->
         IF cmd.audio.decodable
           THEN Handled(PlaySound(s, cmd.audio), <<"Ok">>, FALSE)
           ELSE Handled(s, <<"Failed to decode audio">>, FALSE)
    [] cmd.kind = "Stop" -> Handled(SinkStop(s), <<"Ok">>, FALSE)
    [] cmd.kind = "Pause" -> Handled(SinkPause(s), <<"Ok">>, FALSE)
    [] cmd.kind = "Resume" -> Handled(SinkPlay(s), <<"Ok">>, FALSE)
    [] cmd.kind = "SetVolume" ->
         Handled([s EXCEPT !.volume = Clamp(cmd.volume)], <<"Ok">>, FALSE)
    [] cmd.kind = "Shutdown" -> Handled(SinkStop(s), <<"Ok">>, FALSE)

\* Variant: the sink is stopped before the bytes are decoded.
HandleStopsBeforeDecode(cmd, s) ==
  CASE cmd.kind = "Play" ->
         IF cmd.audio.decodable
           THEN Handled(PlaySound(s, cmd.audio), <<"Ok">>, FALSE)
           ELSE Handled(SinkStop(s), <<"Failed to decode audio">>, FALSE)
    [] cmd.kind = "Stop" -> Handled(SinkStop(s), <<"Ok">>, FALSE)
    [] cmd.kind = "Pause" -> Handled(SinkPause(s), <<"Ok">>, FALSE)
    [] cmd.kind = "Resume" -> Handled(SinkPlay(s), <<"Ok">>, FALSE)
    [] cmd.kind = "SetVolume" ->
         Handled([s EXCEPT !.volume = Clamp(cmd.volume)], <<"Ok">>, FALSE)
    [] cmd.kind = "Shutdown" -> Handled(SinkStop(s), <<"Ok">>, TRUE)

\* The match of the worker's loop on the command received.
Handle(cmd, s) ==
  CASE cmd.kind = "Play" ->
         IF cmd.audio.decodable
           THEN Handled(PlaySound(s, cmd.audio), <<"Ok">>, FALSE)
           ELSE Handled(s, <<"Failed to decode audio">>, FALSE)
    [] cmd.kind = "Stop" -> Handled(SinkStop(s), <<"Ok">>, FALSE)
    [] cmd.kind = "Pause" -> Handled(SinkPause(s), <<"Ok">>, FALSE)
    [] cmd.kind = "Resume" -> Handled(SinkPlay(s), <<"Ok">>, FALSE)
    [] cmd.kind = "SetVolume" ->
         Handled([s EXCEPT !.volume = Clamp(cmd.volume)], <<"Ok">>, FALSE)
    [] cmd.kind = "Shutdown" -> Handled(SinkStop(s), <<"Ok">>, TRUE)

\* The responses that reach the channel: none once the receiver is dropped.
Responses(resps, cmd) ==
  IF handle.st = "dropped" THEN <<>>
  ELSE [i \in 1..Len(resps) |-> Response(resps[i], cmd)]

\* The worker's loop body: one command received, handled and answered.
\* Leaving the loop ends the thread, which drops the sink, the receiver and
\* what is still queued in it.
WorkerRecv ==
  /\ worker_alive
  /\ worker_pc = "loop"
  /\ cmd_rx # <<>>
  /\ LET cmd == Head(cmd_rx)
         h == Handle(cmd, sink)
     IN /\ cmd_rx' = IF h.exit THEN <<>> ELSE Tail(cmd_rx)
        /\ sink' = h.sink
        /\ resp_rx' = resp_rx \o Responses(h.resps, cmd)
        /\ worker_alive' = ~h.exit
        /\ worker_pc' = IF h.exit THEN "exited" ELSE worker_pc
  /\ UNCHANGED <<handle, server, synthesis>>
  /\ UNCHANGED <<config, state, issued, resp_rx_lock, pc, call, built,
                 returned>>

\* ---- AudioPlayer::new: the thread's initialization and the handshake
NoCommand == Command("none", NoAudio)


\* The thread ends having sent the responses resps (none when it panics).
WorkerInitEnds(resps) ==
  /\ resp_rx' = resp_rx \o [i \in 1..Len(resps) |->
                              Response(resps[i], NoCommand)]
  /\ worker_alive' = FALSE
  /\ UNCHANGED worker_pc

\* OutputStream::try_default(): on failure one Error is sent, and return.
WorkerOpenStream(ok) ==
  /\ worker_alive
  /\ worker_pc = "stream"
  /\ IF ok
       THEN /\ worker_pc' = "sink"
            /\ UNCHANGED <<resp_rx, worker_alive>>
       ELSE WorkerInitEnds(<<"Failed to open audio output">>)
  /\ UNCHANGED <<handle, cmd_rx, resp_rx_lock, sink, pc, call, manager,
                 server, synthesis>>

\* Variant: the thread enters its loop without reporting that it is ready.
WorkerOpenSinkSilent(ok) ==
  /\ worker_alive
  /\ worker_pc = "sink"
  /\ IF ok
       THEN /\ worker_pc' = "loop"
            /\ UNCHANGED <<resp_rx, worker_alive>>
       ELSE WorkerInitEnds(<<"Failed to create audio sink">>)
  /\ UNCHANGED <<handle, cmd_rx, resp_rx_lock, sink, pc, call, manager,
                 server, synthesis>>

\* Sink::try_new(): on failure one Error is sent, and return; on success Ok
\* is sent and the thread enters its command loop.
WorkerOpenSink(ok) ==
  /\ worker_alive
  /\ worker_pc = "sink"
  /\ IF ok
       THEN /\ resp_rx' = Append(resp_rx, Response("Ok", NoCommand))
            /\ worker_pc' = "loop"
            /\ UNCHANGED worker_alive
       ELSE WorkerInitEnds(<<"Failed to create audio sink">>)
  /\ UNCHANGED <<handle, cmd_rx, resp_rx_lock, sink, pc, call, manager,
                 server, synthesis>>

\* The thread panics while it opens the audio output: it unwinds, which
\* drops its ends of both channels, without having sent anything.
WorkerInitPanic ==
  /\ worker_alive
  /\ worker_pc \in {"stream", "sink"}
  /\ WorkerInitEnds(<<>>)
  /\ UNCHANGED <<handle, cmd_rx, resp_rx_lock, sink, pc, call, manager,
                 server, synthesis>>

\* Variant: any first response makes a handle.
NewMatchAnyResponse(r) == LiveHandle

\* new: match init_resp
NewMatch(r) ==
  IF r = "Ok" THEN LiveHandle
  ELSE [st |-> "failed", ret |-> "Audio player init failed", cause |-> r]

\* new: resp_rx.recv() of the first response, or of the closed channel.
NewRecv ==
  /\ handle.st = "new"
  /\ \/ /\ resp_rx # <<>>
        /\ resp_rx' = Tail(resp_rx)
        /\ handle' = NewMatch(Head(resp_rx).resp)
     \/ /\ resp_rx = <<>>
        /\ ~worker_alive
        /\ UNCHANGED resp_rx
        /\ handle' = [st |-> "failed",
                      ret |-> "Audio player thread died during init",
                      cause |-> ""]
  /\ UNCHANGED <<worker_pc, worker_alive, cmd_rx, resp_rx_lock, sink, pc,
                 call, manager, server, synthesis>>

\* Variant: the orchestrator keeps a player whatever new() returned.
ManagerNewKeepsPlayer ==
  /\ handle.st \in {"live", "failed"}
  /\ \A t \in Callers : pc[t] = "new"
  /\ player' = TRUE
  /\ pc' = [t \in Callers |-> "idle"]
  /\ UNCHANGED <<lifecycle, server, synthesis>>
  /\ UNCHANGED <<config, state, cloud_engine, tts_manager, n_speaks,
                 n_updates, issued, audio, call, returned>>

\* TtsManager::new: the player is Some exactly when AudioPlayer::new
\* returned Ok; the orchestrator is returned either way.
ManagerNew ==
  /\ handle.st \in {"live", "failed"}
  /\ \A t \in Callers : pc[t] = "new"
  /\ player' = (handle.st = "live")
  /\ pc' = [t \in Callers |-> "idle"]
  /\ UNCHANGED <<lifecycle, server, synthesis>>
  /\ UNCHANGED <<config, state, cloud_engine, tts_manager, n_speaks,
                 n_updates, issued, audio, call, returned>>

\* ---- the handle's methods, called on the AudioPlayer itself
Buffers ==
  {[id |-> 1, decodable |-> TRUE], [id |-> 2, decodable |-> TRUE],
   [id |-> 3, decodable |-> FALSE]}

\* Volumes asked for: below, inside and above 0.0..1.0.
Volumes == {0 - 5, 5, 15}

PlayerCommandOf(op) ==
  CASE op = "AudioPlayer::play" -> "Play"
    [] op = "AudioPlayer::stop" -> "Stop"
    [] op = "AudioPlayer::pause" -> "Pause"
    [] op = "AudioPlayer::resume" -> "Resume"
    [] op = "AudioPlayer::set_volume" -> "SetVolume"

\* No call on the handle is in progress.
Quiet == \A u \in Callers : pc[u] = "idle"

\* play(result), stop(), pause(), resume() or set_volume(volume) is called
\* on a handle that new() returned: &self, by any thread that holds a
\* reference, whatever the other callers are doing.
HandleCall(t, op, buf, vol) ==
  /\ handle.st = "live"
  /\ pc[t] = "idle"
  /\ call' = [call EXCEPT ![t] =
       [NoCall EXCEPT
          !.op = op, !.cmd = PlayerCommandOf(op), !.before = sink,
          !.result = IF op = "AudioPlayer::play"
                       THEN [NoResult EXCEPT !.tag = "Ok", !.audio = buf]
                       ELSE NoResult,
          !.arg = IF op = "AudioPlayer::set_volume"
                    THEN [NoRequest EXCEPT !.volume = vol]
                    ELSE NoRequest]]
  /\ pc' = [pc EXCEPT ![t] = "send"]
  /\ UNCHANGED <<lifecycle, server, synthesis, audio, manager>>

\* One caller at a time calls a method of the handle.
PlayerCall(t, op, buf, vol) == Quiet /\ HandleCall(t, op, buf, vol)

\* impl Drop: Shutdown is sent, whether or not it can be.
DropHandle ==
  /\ handle.st = "live"
  /\ Quiet
  /\ handle' = [handle EXCEPT !.st = "dropping"]
  /\ cmd_rx' = IF worker_alive
                 THEN Append(cmd_rx, Command("Shutdown", NoAudio))
                 ELSE cmd_rx
  /\ UNCHANGED <<worker_pc, worker_alive, resp_rx, resp_rx_lock, sink, pc,
                 call, manager, server, synthesis>>

\* After drop() the fields go: the sender, and the receiver with whatever
\* responses were not read.
DropFields ==
  /\ handle.st = "dropping"
  /\ handle' = [handle EXCEPT !.st = "dropped"]
  /\ resp_rx' = <<>>
  /\ UNCHANGED <<worker_pc, worker_alive, cmd_rx, resp_rx_lock, sink, pc,
                 call, manager, server, synthesis>>

\* The thread panics while it handles a command: it unwinds without an
\* answer, which drops the sink, stopping its sounds, and the receiver with
\* what is still queued in it.
WorkerLoopPanic ==
  /\ worker_alive
  /\ worker_pc = "loop"
  /\ cmd_rx # <<>>
  /\ cmd_rx' = <<>>
  /\ sink' = SinkStop(sink)
  /\ worker_alive' = FALSE
  /\ worker_pc' = "panicked"
  /\ UNCHANGED <<handle, server, synthesis, resp_rx, resp_rx_lock, pc, call,
                 manager>>

\* ------------------------------------------------------------ server.rs
HEALTH_MAX_RETRIES == 60

tts == <<manager, audio, lifecycle, synthesis, pc, call>>

Alive(p) == procs[p] = "running"

\* child.try_wait() on the tracked child: Ok(None) while the process runs;
\* once it has exited, Ok(Some(status)), or Err when the status can no
\* longer be read.
TryWait(ch) ==
  IF ch = 0 THEN {"none"}
  ELSE IF Alive(ch) THEN {"running"}
  ELSE {"exited", "error"}

\* Variant: an exited child is reported but its handle is kept.
IsRunningKeepsHandle(ch, status) ==
  [child |-> ch, ret |-> ch # 0 /\ status = "running"]

\* is_running: the handle afterwards and the answer.
IsRunning(ch, status) ==
  IF ch # 0 /\ status = "running"
    THEN [child |-> ch, ret |-> TRUE]
    ELSE [child |-> 0, ret |-> FALSE]

SrvEntry(op) ==
  CASE op = "start" -> "start_check"
    [] op = "is_running" -> "is_running"
    [] op = "health_check" -> "health_build"
    [] op = "stop" -> "stop_request"

\* A method of the supervisor is called; &mut self, and the server mutex
\* of the commands, admit one call at a time.
SrvCall(op) ==
  /\ srv.pc = "idle"
  /\ op = "start" => Len(procs) < MaxSpawns
  /\ srv' = [NoSrv EXCEPT !.op = op, !.pc = SrvEntry(op), !.pre = child,
                          !.n0 = Len(procs), !.last = srv.last,
                          !.last_ret = srv.last_ret]
  /\ UNCHANGED <<child, procs, tts>>

SrvReturns(ret) == [srv EXCEPT !.pc = "return", !.ret = ret]

SrvReturn ==
  /\ srv.pc = "return"
  /\ srv' = [NoSrv EXCEPT !.last = srv.op, !.last_ret = srv.ret]
  /\ UNCHANGED <<child, procs, tts>>

\* pub fn is_running(&mut self) -> bool
IsRunningStep(status) ==
  /\ srv.pc = "is_running"
  /\ status \in TryWait(child)
  /\ child' = IsRunning(child, status).child
  /\ srv' = [SrvReturns(IF IsRunning(child, status).ret
                          THEN "true" ELSE "false")
               EXCEPT !.running = IsRunning(child, status).ret]
  /\ UNCHANGED <<procs, tts>>

\* Variant: start spawns without asking whether a child is running.
StartCheckAlwaysSpawns(status) ==
  /\ srv.pc = "start_check"
  /\ status \in TryWait(child)
  /\ srv' = [srv EXCEPT !.pc = "start_dir"]
  /\ UNCHANGED <<child, procs, tts>>

\* start: if self.is_running() { return Ok(()); }
StartCheck(status) ==
  /\ srv.pc = "start_check"
  /\ status \in TryWait(child)
  /\ child' = IsRunning(child, status).child
  /\ srv' = IF IsRunning(child, status).ret
              THEN [SrvReturns("Ok") EXCEPT !.running = TRUE]
              ELSE [srv EXCEPT !.pc = "start_dir"]
  /\ UNCHANGED <<procs, tts>>

\* start: config_dir()? and create_dir_all(&data_dir)?
StartDir(ok) ==
  /\ srv.pc = "start_dir"
  /\ srv' = IF ok THEN [srv EXCEPT !.pc = "start_spawn"]
            ELSE SrvReturns("Failed to create data dir")
  /\ UNCHANGED <<child, procs, tts>>

\* Variant: a failed spawn is tried again.
StartSpawnRetries(ok) ==
  /\ srv.pc = "start_spawn"
  /\ IF ok
       THEN /\ procs' = Append(procs, "running")
            /\ child' = Len(procs) + 1
            /\ srv' = [SrvReturns("Ok") EXCEPT !.log = Append(@, "spawn")]
       ELSE /\ srv' = [srv EXCEPT !.log = Append(@, "spawn")]
            /\ UNCHANGED <<child, procs>>
  /\ UNCHANGED tts

\* start: cmd.spawn()?; self.child = Some(child)
StartSpawn(ok) ==
  /\ srv.pc = "start_spawn"
  /\ IF ok
       THEN /\ procs' = Append(procs, "running")
            /\ child' = Len(procs) + 1
            /\ srv' = [SrvReturns("Ok") EXCEPT !.log = Append(@, "spawn")]
       ELSE /\ srv' = [SrvReturns("Failed to spawn python3")
                         EXCEPT !.log = Append(@, "spawn")]
            /\ UNCHANGED <<child, procs>>
  /\ UNCHANGED tts

\* health_check: reqwest::Client::builder().timeout(..).build()?
HealthBuild(ok) ==
  /\ srv.pc = "health_build"
  /\ srv' = IF ok THEN [srv EXCEPT !.pc = "health_poll"]
            ELSE SrvReturns("Failed to build HTTP client")
  /\ UNCHANGED <<child, procs, tts>>

PollAnswers == {"2xx", "status", "error"}

\* health_check: client.get(&url).send().await and the match on it.
HealthPoll(answer) ==
  /\ srv.pc = "health_poll"
  /\ srv' = IF answer = "2xx"
              THEN [SrvReturns("Ok") EXCEPT !.polls = @ + 1,
                                            !.answer = answer]
              ELSE [srv EXCEPT !.pc = "health_sleep", !.polls = @ + 1,
                               !.answer = answer]
  /\ UNCHANGED <<child, procs, tts>>

\* Variant: the loop runs for attempts 1 to HEALTH_MAX_RETRIES - 1.
HealthSleepStopsEarly ==
  /\ srv.pc = "health_sleep"
  /\ srv' = IF srv.polls < HEALTH_MAX_RETRIES - 1
              THEN [srv EXCEPT !.pc = "health_poll", !.sleeps = @ + 1]
              ELSE [SrvReturns("Server did not become healthy")
                      EXCEPT !.sleeps = @ + 1]
  /\ UNCHANGED <<child, procs, tts>>

\* health_check: sleep(HEALTH_RETRY_INTERVAL).await, then the next attempt
\* of 1..=HEALTH_MAX_RETRIES, or bail! after the last.
HealthSleep ==
  /\ srv.pc = "health_sleep"
  /\ srv' = IF srv.polls < HEALTH_MAX_RETRIES
              THEN [srv EXCEPT !.pc = "health_poll", !.sleeps = @ + 1]
              ELSE [SrvReturns("Server did not become healthy")
                      EXCEPT !.sleeps = @ + 1]
  /\ UNCHANGED <<child, procs, tts>>

\* stop: the POST to /shutdown, whose result is dropped; the request is
\* sent before the handle is looked at.
StopRequest(answer) ==
  /\ srv.pc = "stop_request"
  /\ srv' = [srv EXCEPT !.log = Append(@, "shutdown"), !.answer = answer,
               !.pc = IF child # 0 THEN "stop_wait" ELSE "stop_clear"]
  /\ UNCHANGED <<child, procs, tts>>

\* Variant: a failed wait on the child is returned to the caller.
StopWaitPropagates(result) ==
  /\ srv.pc = "stop_wait"
  /\ result \in (IF Alive(child) THEN {"exited", "timeout"}
                 ELSE {"exited", "error"})
  /\ procs' = IF result = "exited"
                THEN [procs EXCEPT ![child] = "exited"] ELSE procs
  /\ srv' = [srv EXCEPT !.log = Append(@, "wait"), !.wait = result,
               !.pc = CASE result = "exited" -> "stop_clear"
                        [] result = "timeout" -> "stop_kill"
                        [] result = "error" -> "return",
               !.ret = IF result = "error" THEN "Failed to wait" ELSE @]
  /\ UNCHANGED <<child, tts>>

\* Variant: the kill follows the wait however the wait ended.
StopWaitAlwaysKills(result) ==
  /\ srv.pc = "stop_wait"
  /\ result \in (IF Alive(child) THEN {"exited", "timeout"}
                 ELSE {"exited", "error"})
  /\ procs' = IF result = "exited"
                THEN [procs EXCEPT ![child] = "exited"] ELSE procs
  /\ srv' = [srv EXCEPT !.log = Append(@, "wait"), !.wait = result,
               !.pc = "stop_kill"]
  /\ UNCHANGED <<child, tts>>

\* stop: timeout(SHUTDOWN_GRACE_PERIOD, child.wait()): the child has exited
\* or exits in time, the wait fails, or the grace period runs out on a
\* child still running.
StopWait(result) ==
  /\ srv.pc = "stop_wait"
  /\ result \in (IF Alive(child) THEN {"exited", "timeout"}
                 ELSE {"exited", "error"})
  /\ procs' = IF result = "exited"
                THEN [procs EXCEPT ![child] = "exited"] ELSE procs
  /\ srv' = [srv EXCEPT !.log = Append(@, "wait"), !.wait = result,
               !.pc = IF result = "exited" THEN "stop_clear"
                      ELSE "stop_kill"]
  /\ UNCHANGED <<child, tts>>

\* Variant: the kill is not delivered to the child.
StopKillSpares(result) ==
  /\ srv.pc = "stop_kill"
  /\ result \in {"ok", "error"}
  /\ srv' = [srv EXCEPT !.log = Append(@, "kill"), !.kill = result,
                        !.pc = "stop_clear"]
  /\ UNCHANGED <<child, procs, tts>>

\* stop: let _ = child.kill().await, the kill and the wait for its effect.
\* A running child is killed; on a child that has ended meanwhile the call
\* succeeds or reports an error, which is dropped.
StopKill(result) ==
  /\ srv.pc = "stop_kill"
  /\ result \in (IF Alive(child) THEN {"killed"} ELSE {"ok", "error"})
  /\ procs' = IF Alive(child) THEN [procs EXCEPT ![child] = "killed"]
              ELSE procs
  /\ srv' = [srv EXCEPT !.log = Append(@, "kill"), !.kill = result,
                        !.pc = "stop_clear"]
  /\ UNCHANGED <<child, tts>>

\* stop: self.child = None; Ok(())
StopClear ==
  /\ srv.pc = "stop_clear"
  /\ child' = 0
  /\ srv' = SrvReturns("Ok")
  /\ UNCHANGED <<procs, tts>>

\* A spawned process ends by itself.
ChildExit(p) ==
  /\ p \in 1..Len(procs)
  /\ Alive(p)
  /\ procs' = [procs EXCEPT ![p] = "exited"]
  /\ UNCHANGED <<child, srv, tts>>

\* ---- main.rs: the start_server command
\* #[tauri::command] start_server: state.server.lock().await, then the
\* body below, the guard being held until the command returns.
CmdStartServer ==
  /\ srv.pc = "idle"
  /\ Len(procs) < MaxSpawns
  /\ srv' = [NoSrv EXCEPT !.op = "start_server", !.pc = "ss_check",
                          !.pre = child, !.n0 = Len(procs),
                          !.last = srv.last, !.last_ret = srv.last_ret]
  /\ UNCHANGED <<child, procs, tts>>

\* start_server: if !srv.is_running() { .. }; with a running child the
\* command goes to health_check at once.
StartServerCheck(status) ==
  /\ srv.pc = "ss_check"
  /\ status \in TryWait(child)
  /\ child' = IsRunning(child, status).child
  /\ srv' = IF IsRunning(child, status).ret
              THEN [srv EXCEPT !.stage = "health", !.pc = "health_build",
                               !.running = TRUE]
              ELSE [srv EXCEPT !.stage = "probe", !.pc = "ss_probe"]
  /\ UNCHANGED <<procs, tts>>

\* start_server: the client of the quick check is built, with `?`; any
\* answer to GET /health means an instance is up already, and start() is
\* called only when there is none.
StartServerProbe(ok, up) ==
  /\ srv.pc = "ss_probe"
  /\ up => ok
  /\ srv' = IF ~ok THEN SrvReturns("Failed to build HTTP client")
            ELSE IF up
              THEN [srv EXCEPT !.stage = "health", !.pc = "health_build"]
            ELSE [srv EXCEPT !.stage = "start", !.pc = "start_check"]
  /\ UNCHANGED <<child, procs, tts>>

\* What start_server returns: the base URL, or the error of the part that
\* failed under its own heading.
StartServerResult(s) ==
  IF s.ret = "Ok" THEN "Ok"
  ELSE IF s.stage = "start" THEN "Failed to start server"
  ELSE IF s.stage = "health" THEN "Server health check failed"
  ELSE s.ret

\* Variant: a health check that fails kills the child and forgets it.
StartServerReturnCleansUp ==
  /\ srv.op = "start_server"
  /\ srv.pc = "return"
  /\ IF srv.stage = "start" /\ srv.ret = "Ok"
       THEN /\ srv' = [srv EXCEPT !.stage = "health", !.pc = "health_build",
                                  !.ret = "none"]
            /\ UNCHANGED <<child, procs>>
       ELSE /\ srv' = [NoSrv EXCEPT !.last = "start_server",
                                    !.last_ret = StartServerResult(srv)]
            /\ child' = IF srv.ret = "Ok" THEN child ELSE 0
            /\ procs' = IF srv.ret # "Ok" /\ child # 0
                          THEN [procs EXCEPT ![child] = "killed"]
                          ELSE procs
  /\ UNCHANGED tts

\* start_server: start() has returned Ok and health_check() follows; or
\* a `?` or the last line returns from the command, which drops the guard.
StartServerReturn ==
  /\ srv.op = "start_server"
  /\ srv.pc = "return"
  /\ srv' = IF srv.stage = "start" /\ srv.ret = "Ok"
              THEN [srv EXCEPT !.stage = "health", !.pc = "health_build",
                               !.ret = "none"]
              ELSE [NoSrv EXCEPT !.last = "start_server",
                                 !.last_ret = StartServerResult(srv)]
  /\ UNCHANGED <<child, procs, tts>>

\* ------------------------------------------------------------ specifications
Step(t) ==
  \/ SpeakConfig(t)
  \/ SpeakMark(t)
  \/ SpeakEngine(t)
  \/ \E ok \in BOOLEAN, decodable \in BOOLEAN : Synthesize(t, ok, decodable)
  \/ SpeakMatch(t)
  \/ Control(t)
  \/ ControlState(t)
  \/ UpdateConfig(t)
  \/ Send(t)
  \/ RxLock(t)
  \/ Recv(t)
  \/ Return(t)

Query(t) ==
  \/ GetState(t)
  \/ GetConfig(t)

SimpleOps == {"stop", "pause", "resume", "get_state", "get_config"}

Next ==
  \/ \E t \in Callers :
       \/ \E e \in EngineNames \cup {None} : CmdSpeak(t, e)
       \/ \E op \in SimpleOps : CmdSimple(t, op)
       \/ \E c \in TtsConfig : CmdUpdateConfig(t, c)
       \/ Step(t)
       \/ Query(t)
  \/ WorkerRecv

Spec == Init /\ [][Next]_vars

DirectOps == {"stop"}

NextManager ==
  \/ \E t \in Callers :
       \/ \E req \in TtsRequest : DirectSpeak(t, req)
       \/ \E op \in DirectOps : DirectSimple(t, op)
       \/ \E c \in TtsConfig : DirectUpdateConfig(t, c)
       \/ Step(t)
  \/ WorkerRecv

SpecManager == Init /\ [][NextManager]_vars

\* pause and resume called on the orchestrator itself, next to its other
\* methods: no mutex of the command layer keeps them apart.
NextControls ==
  \/ \E t \in Callers :
       \/ DirectSpeak(t, [NoRequest EXCEPT !.text = "Hello"])
       \/ \E op \in {"pause", "resume"} : DirectSimple(t, op)
       \/ DirectUpdateConfig(t, PiperConfig)
       \/ Step(t)
  \/ WorkerRecv

SpecControls == Init /\ [][NextControls]_vars

\* Variant: the end of the sound puts the playback state back to Idle.
SoundEndsIdles ==
  /\ worker_alive
  /\ sink.queue # <<>>
  /\ ~sink.paused
  /\ sink' = [sink EXCEPT !.queue = Tail(@)]
  /\ state' = "Idle"
  /\ UNCHANGED <<lifecycle, server, synthesis, pc, call>>
  /\ UNCHANGED <<config, issued, cmd_rx, resp_rx, resp_rx_lock,
                 worker_alive, built, returned>>

\* The sound at the head of the sink's queue plays to its end: rodio drops
\* it from the queue, and neither the worker's loop nor the orchestrator is
\* told.
SoundEnds ==
  /\ worker_alive
  /\ sink.queue # <<>>
  /\ ~sink.paused
  /\ sink' = [sink EXCEPT !.queue = Tail(@)]
  /\ UNCHANGED <<lifecycle, server, synthesis, pc, call>>
  /\ UNCHANGED <<config, state, issued, cmd_rx, resp_rx, resp_rx_lock,
                 worker_alive, built, returned>>

\* The commands, with sounds that end by themselves.
NextPlayback ==
  \/ Next
  \/ SoundEnds

SpecPlayback == Init /\ [][NextPlayback]_vars

\* TtsManager::new is running: the engines are built, AudioPlayer::new has
\* spawned the audio thread and waits for its first response.
Constructing(p) ==
  /\ config \in TtsConfig
  /\ state = "Idle"
  /\ player = FALSE
  /\ cloud_engine = CloudEngineBuilt(config)
  /\ tts_manager = 0
  /\ cmd_rx = <<>>
  /\ resp_rx = <<>>
  /\ resp_rx_lock = 0
  /\ worker_alive = TRUE
  /\ sink = EmptySink
  /\ pc = [t \in Callers |-> p]
  /\ call = [t \in Callers |-> NoCall]
  /\ n_speaks = 0
  /\ n_updates = 0
  /\ issued = {config}
  /\ prev = NoRecord
  /\ last_change = [op |-> "none", ok |-> FALSE]
  /\ handle = [NoHandle EXCEPT !.st = "new"]
  /\ worker_pc = "stream"
  /\ child = 0
  /\ procs = <<>>
  /\ srv = NoSrv
  /\ engines = BuildEngines(config, "EspeakNg")
  /\ invocations = <<>>

NewPlayer ==
  \/ \E ok \in BOOLEAN : WorkerOpenStream(ok)
  \/ \E ok \in BOOLEAN : WorkerOpenSink(ok)
  \/ WorkerInitPanic
  \/ NewRecv

\* The orchestrator from its construction on, used through the commands.
InitNew == Constructing("new")

NextNew ==
  \/ NewPlayer
  \/ ManagerNew
  \/ \E t \in Callers :
       \/ \E e \in EngineNames \cup {None} : CmdSpeak(t, e)
       \/ CmdSimple(t, "stop")
       \/ \E c \in TtsConfig : CmdUpdateConfig(t, c)
       \/ Step(t)
  \/ WorkerRecv

SpecNew == InitNew /\ [][NextNew]_vars

\* The AudioPlayer alone, from new() to the end of its thread.
InitPlayer == Constructing("idle") /\ config = DefaultConfig

PlayerStep(t) ==
  \/ Send(t)
  \/ RxLock(t)
  \/ Recv(t)
  \/ Return(t)

NextPlayer ==
  \/ NewPlayer
  \/ \E t \in Callers :
       \/ \E op \in PlayerOps \ {"AudioPlayer::play",
                                   "AudioPlayer::set_volume"} :
            PlayerCall(t, op, NoAudio, NoneF)
       \/ \E buf \in Buffers : PlayerCall(t, "AudioPlayer::play", buf, NoneF)
       \/ \E vol \in Volumes :
            PlayerCall(t, "AudioPlayer::set_volume", NoAudio, vol)
       \/ PlayerStep(t)
  \/ WorkerRecv
  \/ WorkerLoopPanic
  \/ DropHandle
  \/ DropFields

SpecPlayer == InitPlayer /\ [][NextPlayer]_vars

\* The AudioPlayer shared by reference between two threads, which call
\* play and stop on it whenever they like.
NextShared ==
  \/ NewPlayer
  \/ \E t \in Callers :
       \/ HandleCall(t, "AudioPlayer::stop", NoAudio, NoneF)
       \/ \E buf \in Buffers : HandleCall(t, "AudioPlayer::play", buf, NoneF)
       \/ PlayerStep(t)
  \/ WorkerRecv

SpecShared == InitPlayer /\ [][NextShared]_vars

\* Both threads are scheduled: the audio thread runs its initialization and
\* takes the commands queued for it, and new() takes the response it waits
\* for.
FairSpecPlayer ==
  /\ SpecPlayer
  /\ WF_vars(NewPlayer)
  /\ WF_vars(WorkerRecv)
  /\ \A t \in Callers : WF_vars(PlayerStep(t))

\* The supervisor alone, with the processes it spawns.
InitServer == Init /\ config = DefaultConfig /\ ~player

SrvOps == {"start", "is_running", "health_check", "stop"}

NextServer ==
  \/ \E op \in SrvOps : SrvCall(op)
  \/ SrvReturn
  \/ \E status \in {"none", "running", "exited", "error"} :
       IsRunningStep(status) \/ StartCheck(status)
  \/ \E ok \in BOOLEAN : StartDir(ok) \/ StartSpawn(ok) \/ HealthBuild(ok)
  \/ \E answer \in PollAnswers : HealthPoll(answer) \/ StopRequest(answer)
  \/ HealthSleep
  \/ \E result \in {"exited", "timeout", "error"} : StopWait(result)
  \/ \E result \in {"killed", "ok", "error"} : StopKill(result)
  \/ StopClear
  \/ \E p \in 1..MaxSpawns : ChildExit(p)

SpecServer == InitServer /\ [][NextServer]_vars

\* The start_server command, called again and again, with the processes it
\* spawns.
NextStartServer ==
  \/ CmdStartServer
  \/ StartServerReturn
  \/ \E status \in {"none", "running", "exited", "error"} :
       StartServerCheck(status) \/ StartCheck(status)
  \/ \E ok \in BOOLEAN, up \in BOOLEAN : StartServerProbe(ok, up)
  \/ \E ok \in BOOLEAN : StartDir(ok) \/ StartSpawn(ok) \/ HealthBuild(ok)
  \/ \E answer \in PollAnswers : HealthPoll(answer)
  \/ HealthSleep
  \/ \E p \in 1..MaxSpawns : ChildExit(p)

SpecStartServer == InitServer /\ [][NextStartServer]_vars

StopStep ==
  \/ \E answer \in PollAnswers : StopRequest(answer)
  \/ \E result \in {"exited", "timeout", "error"} : StopWait(result)
  \/ \E result \in {"killed", "ok", "error"} : StopKill(result)
  \/ StopClear

\* The task running stop() is scheduled, and each of its awaits ends: the
\* request has a timeout of 5 s, the wait one of SHUTDOWN_GRACE_PERIOD,
\* and the kill waits for a process that was sent the kill.
FairSpecServer == SpecServer /\ WF_vars(StopStep)

\* The orchestrator with its engines on each host, used through the
\* commands: speak runs the synthesize of the engine it resolved.
InitEngines ==
  /\ Constructed
  /\ \E h \in Hosts : config = h.config /\ engines = BuildEngines(config, h.backend)

EngineOps == {"stop", "get_state", "get_config", "get_available_engines"}

EngineStep(t) ==
  \/ SpeakConfig(t)
  \/ SpeakMark(t)
  \/ SpeakEngine(t)
  \/ \E ok \in BOOLEAN, decodable \in BOOLEAN : SpeakSynthesize(t, ok, decodable)
  \/ SpeakMatch(t)
  \/ Control(t)
  \/ ControlState(t)
  \/ UpdateConfig(t)
  \/ Send(t)
  \/ RxLock(t)
  \/ Recv(t)
  \/ Return(t)
  \/ GetState(t)
  \/ GetConfig(t)
  \/ \E ok \in BOOLEAN : ListVoices(t, ok)
  \/ \E piper \in BOOLEAN : GetAvailableEngines(t, piper)

\* One client: the commands are serialized by the mutex anyway.
Client == {1}

NextEngines ==
  \/ \E t \in Client :
       \/ \E e \in {None, "piper", "cloud"} : CmdSpeak(t, e)
       \/ \E op \in EngineOps : CmdSimple(t, op)
       \/ \E c \in {OpenAIConfig} : CmdUpdateConfig(t, c)
       \/ \E e \in EngineType : CmdListVoices(t, e)
       \/ EngineStep(t)
  \/ WorkerRecv

SpecEngines == InitEngines /\ [][NextEngines]_vars

\* The engines of an orchestrator, their synthesize called directly.
InitSynthesize == InitEngines /\ ~player

NextSynthesize ==
  \E e \in EngineType, req \in EngineRequests : CallSynthesize(e, req)

SpecSynthesize == InitSynthesize /\ [][NextSynthesize]_vars

\* ------------------------------------------------------------ properties
Returning(t, op) == pc[t] = "return" /\ call[t].op = op

Failed(t) == call[t].ret \notin {"Ok", "none"}

\* A speak that has taken its configuration snapshot and not yet returned.
Snapshotted(t) ==
  call[t].op = "speak" /\ pc[t] \notin {"idle", "speak_config"}

\* C1: a speak that returns Ok leaves Playing, has sent exactly one Play
\* carrying the buffer synthesized for this request, and the worker has
\* taken and acknowledged it; no engine is invoked before Synthesizing is
\* written, and no speak returns with the state still Synthesizing.
C1_SpeakOkIsPlayingAfterOnePlay ==
  \A t \in Callers :
    /\ Returning(t, "speak") /\ call[t].ret = "Ok" =>
         /\ state = "Playing"
         /\ call[t].result.tag = "Ok"
         /\ call[t].result.audio.id = call[t].id
         /\ call[t].sent = <<Command("Play", call[t].result.audio)>>
         /\ call[t].resp = "Ok"
         /\ cmd_rx = <<>>
         /\ resp_rx = <<>>
         /\ sink.queue = <<call[t].id>>
         /\ call[t].writes = <<"Synthesizing", "Playing">>
    /\ call[t].invoked # None =>
         Len(call[t].writes) >= 1 /\ call[t].writes[1] = "Synthesizing"
    /\ pc[t] = "synthesize" => state = "Synthesizing"
    /\ Returning(t, "speak") => state # "Synthesizing"

C1_Witness ==
  \E t \in Callers : Returning(t, "speak") /\ call[t].ret = "Ok"

\* C2: a speak whose synthesis failed returns the engine's error, has sent
\* no command to the worker and leaves Error; a speak that returns Ok after
\* the state was Error leaves Playing.
C2_FailedSynthesisIsErrorUntilNextOk ==
  \A t \in Callers :
    /\ Returning(t, "speak") /\ call[t].result.tag = "Err" =>
         /\ call[t].ret = call[t].result.err
         /\ call[t].sent = <<>>
         /\ cmd_rx = <<>>
         /\ state = "Error"
    /\ Returning(t, "speak") /\ call[t].ret = "Ok" /\ call[t].pre = "Error" =>
         state = "Playing"

C2_Witness ==
  \E t \in Callers :
    /\ Returning(t, "speak")
    /\ call[t].ret = "Ok"
    /\ call[t].pre = "Error"
    /\ prev.op = "speak"
    /\ ~prev.ok

\* C3: every speak that returns an error leaves the state Error, also when
\* synthesis succeeded and the worker answered the Play with an error.
C3_FailedSpeakIsError ==
  \A t \in Callers : Returning(t, "speak") /\ Failed(t) => state = "Error"

\* C4: between commands, Error means that the last command that wrote the
\* state was a speak that returned an error; a speak, stop, pause or resume
\* that returns Ok does not leave Error.
C4_ErrorOnlyAfterFailedSpeak ==
  /\ tts_manager = 0 /\ state = "Error" =>
       last_change.op = "speak" /\ ~last_change.ok
  /\ \A t \in Callers :
       /\ pc[t] = "return"
       /\ call[t].op \in {"speak", "stop", "pause", "resume"}
       /\ call[t].ret = "Ok"
       => state # "Error"

C4_Witness == tts_manager = 0 /\ state = "Error"

\* C5: the request handed to the engine carries, for rate, pitch and volume
\* each, the caller's value when set and else the default of the
\* configuration current at the snapshot; the engine invoked is the
\* request's override when set and else that configuration's active engine.
C5_EffectiveValues ==
  \A t \in Callers :
    Snapshotted(t) =>
      /\ call[t].snap \in issued
      /\ call[t].request.text = call[t].arg.text
      /\ call[t].request.rate =
           IF call[t].arg.rate # NoneF THEN call[t].arg.rate
           ELSE call[t].snap.default_rate
      /\ call[t].request.pitch =
           IF call[t].arg.pitch # NoneF THEN call[t].arg.pitch
           ELSE call[t].snap.default_pitch
      /\ call[t].request.volume =
           IF call[t].arg.volume # NoneF THEN call[t].arg.volume
           ELSE call[t].snap.default_volume
      /\ call[t].engine_type =
           IF call[t].arg.engine # None THEN call[t].arg.engine
           ELSE call[t].snap.active_engine
      /\ call[t].invoked \in {None, call[t].engine_type}

\* "Hello" with nothing set, under the default configuration: System, 1.0.
C5_Witness ==
  \E t \in Callers :
    /\ pc[t] = "synthesize"
    /\ call[t].arg = [NoRequest EXCEPT !.text = "Hello"]
    /\ call[t].snap = DefaultConfig
    /\ call[t].invoked = "System"
    /\ call[t].request.rate = 10

\* C6: whatever update_config calls overlap a speak, the engine and the
\* three defaults the speak uses are those of one configuration among the
\* configurations handed to new and update_config.
C6_OneConfiguration ==
  \A t \in Callers :
    Snapshotted(t) =>
      \E c \in issued :
        /\ call[t].engine_type \in {call[t].arg.engine, c.active_engine}
        /\ call[t].arg.engine = None => call[t].engine_type = c.active_engine
        /\ call[t].request.rate \in {call[t].arg.rate, c.default_rate}
        /\ call[t].arg.rate = NoneF => call[t].request.rate = c.default_rate
        /\ call[t].request.pitch \in {call[t].arg.pitch, c.default_pitch}
        /\ call[t].arg.pitch = NoneF =>
             call[t].request.pitch = c.default_pitch
        /\ call[t].request.volume \in {call[t].arg.volume, c.default_volume}
        /\ call[t].arg.volume = NoneF =>
             call[t].request.volume = c.default_volume

\* A speak in flight whose snapshot predates an update_config that has
\* since replaced the configuration.
C6_Witness ==
  \E t \in Callers, u \in Callers :
    /\ Snapshotted(t)
    /\ call[t].arg = [NoRequest EXCEPT !.text = "Hello"]
    /\ Returning(u, "update_config")
    /\ config # call[t].snap

\* C7: through the commands, while a speak is anywhere between its start
\* and its return no other caller executes any step, so no second
\* Synthesizing mark, engine call or Play; at most one synthesis is in
\* flight.
C7_SpeaksSerialized ==
  /\ \A t \in Callers, u \in Callers :
       t # u /\ call[t].op = "speak" /\ pc[t] # "idle" => pc[u] = "idle"
  /\ \A t \in Callers : pc[t] # "idle" => tts_manager = t
  /\ Cardinality({t \in Callers : pc[t] = "synthesize"}) <= 1

\* The second speak synthesizing, after the first has returned.
C7_Witness ==
  \E t \in Callers :
    pc[t] = "synthesize" /\ call[t].id = 2 /\ prev.op = "speak"

C9_PauseResume ==
  \A t \in Callers :
    /\ Returning(t, "resume") /\ prev.op = "pause" /\ prev.pre = "Playing" =>
         /\ prev.ok
         /\ prev.post = "Paused"
         /\ call[t].pre = "Paused"
         /\ call[t].ret = "Ok"
         /\ state = "Playing"
         /\ player => ~sink.paused
    /\ call[t].op \in {"pause", "resume"} =>
         /\ call[t].invoked = None
         /\ call[t].result = NoResult
         /\ call[t].sent \in
              {<<>>,
               <<Command(IF call[t].op = "pause" THEN "Pause" ELSE "Resume",
                         NoAudio)>>}
         /\ pc[t] = "return" /\ player => call[t].sent # <<>>

C9_Witness ==
  \E t \in Callers :
    /\ Returning(t, "resume")
    /\ prev.op = "pause"
    /\ prev.pre = "Playing"
    /\ player
    /\ sink.queue # <<>>

\* C10: a synthesis in flight is left only by its own completion, whatever
\* stop does meanwhile, and the speak then either hands the buffer to the
\* worker or returns the failure.
C10_StopNeverCancelsSynthesis ==
  [][\A t \in Callers :
       /\ pc[t] = "synthesize" =>
            \/ pc'[t] = "synthesize" /\ call'[t] = call[t]
            \/ /\ pc'[t] = "speak_match"
               /\ call'[t].result.tag \in {"Ok", "Err"}
       /\ pc[t] = "speak_match" /\ pc'[t] # "speak_match" =>
            IF call[t].result.tag = "Ok" /\ player
              THEN pc'[t] = "send" /\ call'[t].cmd = "Play"
              ELSE pc'[t] = "return" /\ Failed(t)']_vars

\* A stop has run to its end while the synthesis is still in flight.
C10_Witness ==
  \E t \in Callers, u \in Callers :
    /\ pc[t] = "synthesize"
    /\ Returning(u, "stop")
    /\ call[u].ret = "Ok"
    /\ state = "Idle"

\* C11 as claimed: on an orchestrator built without a player every speak
\* returns the no-audio-device error, whatever the outcome of synthesis.
C11_NoPlayerSpeakIsNoAudioDevice ==
  \A t \in Callers :
    Returning(t, "speak") /\ handle.st = "failed" =>
      call[t].ret = "No audio output device available"

\* C11, amended: when AudioPlayer::new fails, TtsManager::new still returns
\* an orchestrator, without a player; every speak on it returns an error,
\* sends nothing and leaves Error: the no-audio-device error when synthesis
\* succeeded, the engine's own error (or "Cloud TTS not configured") when
\* it did not.
C11_NoPlayerSpeakFails ==
  /\ (\E t \in Callers : pc[t] # "new") => player = (handle.st = "live")
  /\ \A t \in Callers :
       Returning(t, "speak") /\ handle.st = "failed" =>
         /\ ~player
         /\ state = "Error"
         /\ call[t].sent = <<>>
         /\ cmd_rx = <<>>
         /\ call[t].ret =
              IF call[t].result.tag = "Ok"
                THEN "No audio output device available"
                ELSE call[t].result.err
         /\ call[t].result.tag = "Err" =>
              call[t].ret \in {"synthesis failed", "Cloud TTS not configured"}

\* The second speak on an orchestrator whose sink could not be opened,
\* routed to Piper, synthesized, and refused for want of a player.
C11_Witness ==
  \E t \in Callers :
    /\ Returning(t, "speak")
    /\ handle.cause = "Failed to create audio sink"
    /\ call[t].id = 2
    /\ call[t].invoked = "Piper"
    /\ call[t].ret = "No audio output device available"

\* C12: AudioPlayer::new returns: while it waits no command is queued and
\* at most one response is, the Ok of a thread that has reached its loop or
\* the Error of one that has ended; it returns a handle only for Ok, "init
\* failed" with the thread's reason for Error, and "died during init" when
\* the thread ended without a response; and it does return.
C12_NewHandshake ==
  /\ [](/\ handle.st = "new" =>
             /\ cmd_rx = <<>>
             /\ Len(resp_rx) <= 1
             /\ worker_pc = "loop" => resp_rx = <<Response("Ok", NoCommand)>>
             /\ resp_rx # <<>> /\ Head(resp_rx).resp # "Ok" => ~worker_alive
        /\ handle.st \in {"live", "dropping", "dropped"} =>
             handle.ret = "Ok" /\ worker_pc \notin {"stream", "sink"}
        /\ handle.st = "failed" =>
             /\ ~worker_alive
             /\ worker_pc \in {"stream", "sink"}
             /\ resp_rx = <<>>
             /\ \/ /\ handle.ret = "Audio player init failed"
                   /\ handle.cause =
                        IF worker_pc = "stream"
                          THEN "Failed to open audio output"
                          ELSE "Failed to create audio sink"
                \/ /\ handle.ret = "Audio player thread died during init"
                   /\ handle.cause = "")
  /\ <>(handle.st # "new")

\* No audio output could be opened, and new() has returned the error.
C12_Witness ==
  /\ handle.st = "failed"
  /\ handle.ret = "Audio player init failed"
  /\ handle.cause = "Failed to open audio output"

\* A call of send_cmd between its send and the response it waits for.
Waiting(t) == pc[t] \in {"rx_lock", "recv"}

\* The response the loop gives a command.
Expected(cmd) ==
  IF cmd.kind = "Play" /\ ~cmd.audio.decodable
    THEN "Failed to decode audio" ELSE "Ok"

\* C13: with callers one at a time, while a send_cmd waits and the thread
\* lives exactly one of its command and the response to it is in flight;
\* the response it returns with is the one response made for the command it
\* sent; both channels are empty whenever no send_cmd is in progress; and
\* the Shutdown of a dropped handle is answered once too.
C13_OneResponsePerCommand ==
  /\ \A t \in Callers :
       /\ Waiting(t) /\ worker_alive =>
            /\ Len(cmd_rx) + Len(resp_rx) = 1
            /\ cmd_rx \in {<<>>, call[t].sent}
            /\ resp_rx # <<>> => Head(resp_rx).of = call[t].sent[1]
       /\ Waiting(t) => Len(resp_rx) <= 1
       /\ pc[t] = "return" /\ call[t].op \in PlayerOps =>
            /\ Len(call[t].sent) <= 1
            /\ Len(call[t].answers) <= Len(call[t].sent)
            /\ call[t].answers # <<>> =>
                 /\ call[t].answers = call[t].sent
                 /\ call[t].resp = Expected(call[t].sent[1])
            /\ call[t].answers = <<>> =>
                 /\ ~worker_alive
                 /\ call[t].resp \in {"Audio player thread not responding",
                                      "Audio player thread died"}
  /\ handle.st = "live" /\ (\A t \in Callers : ~Waiting(t) /\ pc[t] # "send")
       => cmd_rx = <<>> /\ resp_rx = <<>>
  /\ handle.st = "dropping" =>
       /\ worker_alive => cmd_rx = <<Command("Shutdown", NoAudio)>>
       /\ resp_rx \in
            {<<>>, <<Response("Ok", Command("Shutdown", NoAudio))>>}
       /\ resp_rx # <<>> => ~worker_alive /\ cmd_rx = <<>>

\* set_volume returns Ok, answered for its own SetVolume, while a sound
\* plays.
C13_Witness ==
  \E t \in Callers :
    /\ pc[t] = "return"
    /\ call[t].cmd = "SetVolume"
    /\ call[t].answers = <<VolumeCommand(15)>>
    /\ call[t].resp = "Ok"
    /\ sink.queue # <<>>
    /\ sink.volume = 10

\* C14: the sink never holds more than one sound, and when a Play has been
\* answered Ok it holds the sound of that Play alone, playing.
C14_PlayReplaces ==
  /\ Len(sink.queue) <= 1
  /\ \A t \in Callers :
       pc[t] = "return" /\ call[t].cmd = "Play" /\ call[t].resp = "Ok" =>
         /\ sink.queue = <<call[t].result.audio.id>>
         /\ ~sink.paused

\* A Play answered Ok that found another sound, paused, in the sink.
C14_Witness ==
  \E t \in Callers :
    /\ pc[t] = "return"
    /\ call[t].cmd = "Play"
    /\ call[t].resp = "Ok"
    /\ call[t].before.queue = <<1>>
    /\ call[t].before.paused
    /\ call[t].result.audio.id = 2

\* C15: a Play whose bytes do not decode is answered "Failed to decode
\* audio" and the thread stays in its loop; the loop is left only after the
\* handle was dropped, so every send_cmd on a thread that does not panic
\* gets its answer.
C15_DecodeErrorKeepsWorker ==
  /\ [](/\ \A t \in Callers :
             /\ pc[t] = "return"
             /\ call[t].cmd = "Play"
             /\ ~call[t].result.audio.decodable
             /\ call[t].answers # <<>>
             => /\ call[t].resp = "Failed to decode audio"
                /\ worker_alive
                /\ worker_pc = "loop"
        /\ worker_pc = "exited" => handle.st \in {"dropping", "dropped"})
  /\ \A t \in Callers :
       Waiting(t) ~> (pc[t] = "return" /\
                      (call[t].answers # <<>> \/ worker_pc = "panicked"))

\* A command answered Ok right after a Play that was answered with the
\* decode error.
C15_Witness ==
  \E t \in Callers :
    /\ prev.op = "AudioPlayer::play"
    /\ ~prev.ok
    /\ pc[t] = "return"
    /\ call[t].cmd = "Resume"
    /\ call[t].resp = "Ok"
    /\ call[t].answers = call[t].sent

\* A call of send_cmd that has not returned yet.
InSendCmd(t) == pc[t] \in {"send", "rx_lock", "recv"}

\* C16: once the thread has ended, a send_cmd that has not sent yet returns
\* "not responding" without queueing anything, one that waits for its
\* response returns "died", and either does return; no call sends its
\* command more than once.
C16_DeadWorkerIsAnError ==
  /\ [](\A t \in Callers :
          /\ Len(call[t].sent) <= 1
          /\ pc[t] = "send" => call[t].sent = <<>>
          /\ pc[t] = "return" /\ call[t].op \in PlayerOps
             /\ call[t].answers = <<>>
             => /\ ~worker_alive
                /\ call[t].ret = call[t].resp
                /\ call[t].resp =
                     IF call[t].sent = <<>>
                       THEN "Audio player thread not responding"
                       ELSE "Audio player thread died")
  /\ [][\A t \in Callers :
          /\ ~worker_alive /\ pc[t] = "send" /\ pc'[t] # "send" =>
               /\ pc'[t] = "return"
               /\ call'[t].ret = "Audio player thread not responding"
               /\ call'[t].sent = <<>>
               /\ cmd_rx' = cmd_rx
          /\ ~worker_alive /\ pc[t] = "recv" /\ pc'[t] # "recv"
             /\ resp_rx = <<>> =>
               /\ pc'[t] = "return"
               /\ call'[t].ret = "Audio player thread died"]_vars
  /\ \A t \in Callers :
       (~worker_alive /\ InSendCmd(t)) ~> (pc[t] = "return" /\ Failed(t))

\* The call after the one during which the thread died.
C16_Witness ==
  \E t \in Callers :
    /\ pc[t] = "return"
    /\ call[t].ret = "Audio player thread not responding"
    /\ worker_pc = "panicked"
    /\ prev.op \in PlayerOps
    /\ ~prev.ok

\* C17: dropping the handle queues a Shutdown, the last command the thread
\* will find; the thread leaves its loop only by taking it, with nothing
\* else left in the queue, and stops the sink as it does; it does end; and
\* once it has ended the sink and the queue are never touched again.
C17_DropShutsDown ==
  /\ [](handle.st \in {"dropping", "dropped"} =>
          /\ worker_alive => cmd_rx = <<Command("Shutdown", NoAudio)>>
          /\ ~worker_alive => cmd_rx = <<>> /\ sink.queue = <<>>)
  /\ [][/\ worker_pc' = "exited" /\ worker_pc # "exited" =>
             /\ cmd_rx = <<Command("Shutdown", NoAudio)>>
             /\ sink'.queue = <<>>
             /\ ~worker_alive'
        /\ ~worker_alive =>
             /\ ~worker_alive'
             /\ sink' = sink
             /\ worker_pc' = worker_pc
             /\ cmd_rx' = cmd_rx]_vars
  /\ (handle.st = "dropping") ~> (~worker_alive /\ sink.queue = <<>>)

\* The handle was dropped after a play, and the thread has taken the
\* Shutdown and ended.
C17_Witness ==
  /\ handle.st = "dropped"
  /\ worker_pc = "exited"
  /\ prev.op = "AudioPlayer::play"
  /\ prev.ok
  /\ sink.queue = <<>>

SrvReturning(op) == srv.op = op /\ srv.pc = "return"

Spawned == Len(procs) - srv.n0

\* C18: at most one process spawned by the supervisor runs at any time,
\* and a running one is the tracked one; a start() that finds the tracked
\* child running returns Ok, spawns nothing and leaves the handle alone,
\* and no start() spawns more than one process.
C18_OneLiveChild ==
  /\ Cardinality({p \in 1..Len(procs) : Alive(p)}) <= 1
  /\ \A p \in 1..Len(procs) : Alive(p) => child = p
  /\ srv.op = "start" =>
       /\ Spawned <= 1
       /\ srv.running =>
            /\ srv.pc = "return"
            /\ srv.ret = "Ok"
            /\ srv.pre # 0
            /\ child = srv.pre
            /\ Spawned = 0
            /\ srv.log = <<>>

\* The second of two start() calls in a row, the child of the first still
\* running.
C18_Witness ==
  /\ SrvReturning("start")
  /\ srv.running
  /\ srv.last = "start"
  /\ srv.last_ret = "Ok"
  /\ Alive(child)

\* C19: is_running() answers in one step that is always possible, true
\* exactly when a child is tracked and runs; when it answers false the
\* handle is cleared, and when true it is kept; past its own is_running()
\* a start() holds no handle, and when it returns Ok from there the handle
\* is a process spawned by it.
C19_IsRunningReaps ==
  /\ [](/\ srv.pc = "is_running" =>
             ENABLED (\E status \in {"none", "running", "exited", "error"} :
                        IsRunningStep(status))
        /\ srv.pc \in {"start_dir", "start_spawn"} => child = 0
        /\ SrvReturning("start") /\ srv.ret = "Ok" /\ ~srv.running =>
             /\ child = Len(procs)
             /\ child # srv.pre
             /\ Spawned = 1)
  /\ [][srv.pc = "is_running" /\ srv'.pc # "is_running" =>
          /\ srv'.pc = "return"
          /\ srv'.running = (child # 0 /\ Alive(child))
          /\ srv'.ret = IF srv'.running THEN "true" ELSE "false"
          /\ child' = IF srv'.running THEN child ELSE 0
          /\ procs' = procs]_vars

\* start() has spawned a second process, is_running() having answered
\* false for the first, which had exited.
C19_Witness ==
  /\ SrvReturning("start")
  /\ srv.ret = "Ok"
  /\ srv.last = "is_running"
  /\ srv.last_ret = "false"
  /\ srv.pre = 0
  /\ child = 2

\* C20 as claimed: a health_check in which no poll was answered 2xx returns
\* the timeout error after exactly HEALTH_MAX_RETRIES polls and sleeps.
C20_NoSuccessIsTimeout ==
  SrvReturning("health_check") /\ srv.answer # "2xx" =>
    /\ srv.ret = "Server did not become healthy"
    /\ srv.polls = HEALTH_MAX_RETRIES
    /\ srv.sleeps = HEALTH_MAX_RETRIES

\* C20, amended: if the HTTP client cannot be built health_check returns
\* that error without polling. Otherwise it polls one at a time, a sleep
\* after each poll not answered 2xx; it returns Ok on the first poll
\* answered 2xx, and the timeout error after exactly HEALTH_MAX_RETRIES
\* polls, and as many sleeps, none of them answered 2xx.
C20_HealthCheckPolls ==
  srv.op = "health_check" =>
    /\ srv.polls <= HEALTH_MAX_RETRIES
    /\ srv.pc = "health_build" => srv.polls = 0 /\ srv.sleeps = 0
    /\ srv.pc = "health_poll" => srv.sleeps = srv.polls /\ srv.answer # "2xx"
    /\ srv.pc = "health_sleep" =>
         srv.sleeps = srv.polls - 1 /\ srv.answer \in {"status", "error"}
    /\ srv.pc = "return" =>
         \/ /\ srv.ret = "Failed to build HTTP client"
            /\ srv.polls = 0
            /\ srv.sleeps = 0
         \/ /\ srv.ret = "Ok"
            /\ srv.answer = "2xx"
            /\ srv.polls >= 1
            /\ srv.sleeps = srv.polls - 1
         \/ /\ srv.ret = "Server did not become healthy"
            /\ srv.answer \in {"status", "error"}
            /\ srv.polls = HEALTH_MAX_RETRIES
            /\ srv.sleeps = HEALTH_MAX_RETRIES

\* The timeout, after the last poll and the sleep that follows it.
C20_Witness ==
  /\ SrvReturning("health_check")
  /\ srv.ret = "Server did not become healthy"
  /\ srv.polls = HEALTH_MAX_RETRIES

Attempts == Cardinality({i \in 1..Len(srv.log) : srv.log[i] = "spawn"})

\* C21: when the grace period of stop() runs out on the tracked child,
\* stop() goes on to the kill before anything else, and from the kill on
\* the child does not run; when that stop() returns it has sent the
\* request, waited and killed, in this order, the process it tracked is
\* dead, and the handle is cleared.
C21_StopKillsAfterGrace ==
  srv.op = "stop" /\ srv.wait = "timeout" =>
    /\ srv.pre # 0
    /\ srv.pc \in {"stop_kill", "stop_clear", "return"}
    /\ srv.pc = "stop_kill" => child = srv.pre
    /\ srv.pc \in {"stop_clear", "return"} =>
         /\ srv.kill # "none"
         /\ ~Alive(srv.pre)
         /\ srv.log = <<"shutdown", "wait", "kill">>
    /\ srv.pc = "return" => child = 0 /\ srv.ret = "Ok"

\* stop() has returned after its kill ended a child that outlived the
\* grace period.
C21_Witness ==
  /\ SrvReturning("stop")
  /\ srv.wait = "timeout"
  /\ srv.kill = "killed"
  /\ procs[srv.pre] = "killed"

C23_StopUntrackedIsNoop ==
  srv.op = "stop" /\ srv.pre = 0 =>
    /\ child = 0
    /\ Spawned = 0
    /\ srv.log = <<>>

\* C24: a start() that returns an error has made at most one spawn
\* attempt, none when the data directory failed, has spawned nothing and
\* leaves no child tracked; no start() makes more than one attempt; an
\* is_running() right after a failed start() answers false, and a start()
\* right after it goes on to the data directory and the spawn again.
C24_FailedStartTracksNothing ==
  /\ srv.op = "start" => Attempts <= 1
  /\ SrvReturning("start") /\ srv.ret # "Ok" =>
       /\ srv.ret \in {"Failed to create data dir", "Failed to spawn python3"}
       /\ child = 0
       /\ Spawned = 0
       /\ ~srv.running
       /\ Attempts = (IF srv.ret = "Failed to spawn python3" THEN 1 ELSE 0)
  /\ srv.last = "start" /\ srv.last_ret # "Ok" =>
       /\ srv.pc = "idle" => child = 0
       /\ SrvReturning("is_running") => srv.ret = "false"
       /\ srv.op = "start" =>
            /\ ~srv.running
            /\ srv.pre = 0
            /\ srv.pc \in {"start_check", "start_dir", "start_spawn", "return"}
            /\ srv.pc = "return" => Attempts = 1 \/ srv.ret = "Failed to create data dir"

\* A start() that failed to spawn, followed by a start() that spawned.
C24_Witness ==
  /\ SrvReturning("start")
  /\ srv.last = "start"
  /\ srv.last_ret = "Failed to spawn python3"
  /\ srv.ret = "Ok"
  /\ Alive(child)

\* C25: the cloud engine is available exactly when its API key is not
\* empty, whatever the provider; and an orchestrator constructed from a
\* configuration without an API key, or with an empty one, never lists
\* Cloud among its available engines, whatever configuration it was given
\* since.
C25_CloudAvailableIffKey ==
  /\ \A p \in CloudProvider, k \in {"", "sk-key"}, ep \in {None, "https://tts"} :
       CloudIsAvailable(CloudTtsEngineNew(p, k, None, ep)) <=> k # ""
  /\ cloud_engine => CloudIsAvailable(engines.cloud)
  /\ \A t \in Callers :
       Returning(t, "get_available_engines") =>
         /\ "Cloud" \in call[t].available <=> cloud_engine
         /\ engines.key \in {None, ""} => "Cloud" \notin call[t].available

\* get_available_engines returns without Cloud on an orchestrator built with
\* an empty key, after update_config has stored a configuration with a key.
C25_Witness ==
  \E t \in Callers :
    /\ Returning(t, "get_available_engines")
    /\ engines.key = ""
    /\ config.api_key = "sk-key"
    /\ "System" \in call[t].available
    /\ "Cloud" \notin call[t].available

\* The four queries of the orchestrator.
Queries == {"list_voices", "get_available_engines", "get_state", "get_config"}

\* C26: list_voices, get_available_engines, get_state and get_config leave
\* the playback state, the configuration, the engines and the audio worker
\* as they were: the step of each changes none of them, and the query
\* returns having sent no command to the worker and written no state.
C26_QueriesChangeNothing ==
  /\ [](\A t \in Callers, q \in Queries :
          Returning(t, q) => call[t].sent = <<>> /\ call[t].writes = <<>>)
  /\ [][\A t \in Callers :
          pc[t] \in Queries /\ pc'[t] = "return" =>
            /\ UNCHANGED <<state, config, engines, invocations>>
            /\ UNCHANGED <<player, cloud_engine, audio>>
            /\ call'[t].sent = <<>>]_vars

\* A list_voices that failed returns while a sound plays, after a
\* get_available_engines.
C26_Witness ==
  \E t \in Callers :
    /\ Returning(t, "list_voices")
    /\ call[t].ret = "list_voices failed"
    /\ prev.op = "get_available_engines"
    /\ state = "Playing"
    /\ sink.queue # <<>>

\* C27: the configuration is what the last update_config was given, every
\* field of it: only the step of update_config changes it, to its argument
\* and with the playback state untouched; speak, stop, pause and resume
\* leave it alone; and get_config returns a copy equal to it.
C27_ConfigIsLastUpdate ==
  /\ [](\A t \in Callers :
          /\ Returning(t, "get_config") => call[t].snap = config
          /\ Returning(t, "update_config") =>
               config = call[t].new_config /\ call[t].writes = <<>>)
  /\ [][/\ config' # config =>
             \E t \in Callers :
               /\ pc[t] = "update_config"
               /\ pc'[t] = "return"
               /\ config' = call[t].new_config
        /\ \A t \in Callers :
             pc[t] = "update_config" /\ pc'[t] = "return" =>
               /\ config' = call[t].new_config
               /\ UNCHANGED <<state, player, cloud_engine, engines, audio>>
        /\ \A t \in Callers :
             /\ call[t].op \in {"speak", "stop", "pause", "resume"}
             /\ pc'[t] # pc[t]
             => config' = config]_vars

\* get_config returns the configuration that update_config stored, after a
\* speak that left a sound playing.
C27_Witness ==
  \E t \in Callers :
    /\ Returning(t, "get_config")
    /\ n_updates = 1
    /\ Cardinality(issued) = 2
    /\ call[t].snap = CloudConfig
    /\ prev.op = "speak"
    /\ state = "Playing"

\* The request provides each of the four controls.
Provided(req) ==
  /\ req.voice # None
  /\ req.rate # NoneF
  /\ req.pitch # NoneF
  /\ req.volume # NoneF

\* C28 (as stated): on every engine, two requests that provide the voice,
\* the rate, the pitch and the volume and differ in one of them only are
\* turned by synthesize into different native invocations.
C28_EveryControlReachesEngine ==
  \A i \in 1..Len(invocations), j \in 1..Len(invocations) :
    LET a == invocations[i]
        b == invocations[j]
    IN  /\ a.engine = b.engine
        /\ Provided(a.request) /\ Provided(b.request)
        /\ DiffersInOne(a.request, b.request)
        /\ a.built.tag = "Run" /\ b.built.tag = "Run"
        => a.built.native # b.built.native

\* The canonical value a request asks for, in tenths: 1.0 when it gives none.
Canonical(v) == IF v = NoneF THEN 10 ELSE v

\* The engine's own default for a native control: 175 words per minute for
\* espeak and say, rate 0 for SAPI, 0 percent for Azure, speed 1.0 for
\* OpenAI and Google, 0 semitones for Google.
NativeDefault(e, control) ==
  CASE e = "System" /\ control = "rate" ->
         IF engines.backend = "Sapi" THEN 0 ELSE 175
    [] e = "Cloud" /\ control = "rate" ->
         IF engines.cloud.provider = "Azure" THEN 0 ELSE One
    [] OTHER -> 0

\* Native values of the two mappings of one control are in order.
InOrder(a, b, control) ==
  /\ a.built.native[control] # <<>>
  /\ b.built.native[control] # <<>>
  /\ Canonical(a.request[control]) <= Canonical(b.request[control])
  => a.built.native[control][1] <= b.built.native[control][1]

\* C29: each native mapping of the rate and of the pitch is centered and
\* monotonic on the grid of tenths from 0.5 to 2.0: a request at 1.0, or
\* without a value, is given the engine's own default, and of two requests
\* on one engine the one with the larger canonical value never gets the
\* smaller native value, truncation to an integer included.
C29_MappingsCenteredMonotonic ==
  /\ \A i \in 1..Len(invocations) :
       LET a == invocations[i]
       IN  \A control \in {"rate", "pitch"} :
             /\ a.built.tag = "Run"
             /\ a.built.native[control] # <<>>
             /\ Canonical(a.request[control]) = 10
             => a.built.native[control][1] = NativeDefault(a.engine, control)
  /\ \A i \in 1..Len(invocations), j \in 1..Len(invocations) :
       LET a == invocations[i]
           b == invocations[j]
       IN  /\ a.engine = b.engine
           /\ a.built.tag = "Run" /\ b.built.tag = "Run"
           => InOrder(a, b, "rate") /\ InOrder(a, b, "pitch")

\* SAPI is given the same negative rate for two different rates below 1.0:
\* the truncation towards zero makes a plateau, not an inversion.
C29_Witness ==
  /\ Len(invocations) = 2
  /\ invocations[1].engine = "System"
  /\ engines.backend = "Sapi"
  /\ invocations[1].request.rate < invocations[2].request.rate
  /\ invocations[1].built.native.rate = invocations[2].built.native.rate
  /\ invocations[1].built.native.rate[1] < 0

\* What the Piper engine answers when it cannot use its model.
PiperModelError ==
  IF engines.model_path = None THEN "No Piper model configured"
  ELSE IF engines.model_path \notin Files THEN "Piper model not found"
  ELSE "none"

\* C30: with no model configured, or with a model file that does not exist,
\* the synthesize of the Piper engine returns its error ("No Piper model
\* configured", "Piper model not found") and runs no program; and a speak
\* routed to Piper then returns that error with the state Error, nothing
\* having been sent to the audio worker.
C30_PiperWithoutModelFails ==
  PiperModelError # "none" =>
    /\ \A i \in 1..Len(invocations) :
         invocations[i].engine = "Piper" =>
           /\ invocations[i].built.tag = "Err"
           /\ invocations[i].built.err = PiperModelError
           /\ invocations[i].built.native = NoNative
    /\ \A t \in Callers :
         Returning(t, "speak") /\ call[t].engine_type = "Piper" =>
           /\ call[t].ret = PiperModelError
           /\ call[t].writes = <<"Synthesizing", "Error">>
           /\ call[t].sent = <<>>
           /\ state = "Error"

\* A speak routed to Piper returns that the model file was not found, the
\* state being Error.
C30_Witness ==
  \E t \in Callers :
    /\ Returning(t, "speak")
    /\ call[t].engine_type = "Piper"
    /\ engines.model_path = "/nonexistent/model.onnx"
    /\ call[t].ret = "Piper model not found"
    /\ invocations # <<>>
    /\ invocations[Len(invocations)].built = Refuse("Piper model not found")
    /\ state = "Error"

\* The same with no model configured.
C30_WitnessNoModel ==
  \E t \in Callers :
    /\ Returning(t, "speak")
    /\ call[t].engine_type = "Piper"
    /\ engines.model_path = None
    /\ call[t].ret = "No Piper model configured"
    /\ state = "Error"

\* C31: a speak calls synthesize at most once, on the engine it resolved:
\* a call is logged only by the step that leaves "synthesize" for the match
\* on the result, which a speak passes once; a synthesis that failed is
\* surfaced with the state Error; and a speak resolved to Cloud without a
\* cloud engine calls no engine and fails with "Cloud TTS not configured".
C31_OneSynthesizePerSpeak ==
  /\ [](\A t \in Callers :
          Returning(t, "speak") =>
            /\ call[t].result.tag = "Err" =>
                 /\ call[t].ret = call[t].result.err
                 /\ state = "Error"
                 /\ call[t].sent = <<>>
            /\ call[t].engine_type = "Cloud" /\ ~cloud_engine =>
                 /\ call[t].invoked = None
                 /\ call[t].ret = "Cloud TTS not configured"
            /\ call[t].invoked \in {None, call[t].engine_type})
  /\ [][/\ invocations' # invocations =>
             \E t \in Callers :
               /\ pc[t] = "synthesize"
               /\ pc'[t] = "speak_match"
               /\ call[t].invoked = call[t].engine_type
               /\ invocations' =
                    Append(invocations,
                           Invoked(call[t].engine_type, call[t].request))
        /\ \A t \in Callers :
             /\ pc'[t] = "synthesize" => pc[t] \in {"speak_engine", "synthesize"}
             /\ pc'[t] = "speak_engine" =>
                  pc[t] \in {"speak_mark", "speak_engine"}
             /\ pc'[t] = "speak_mark" =>
                  pc[t] \in {"speak_config", "speak_mark"}
             /\ pc'[t] = "speak_config" => pc[t] \in {"idle", "speak_config"}]_vars

\* A speak resolved to Cloud returns "Cloud TTS not configured" without a
\* call of an engine, after a speak whose one synthesis on Piper failed.
C31_Witness ==
  \E t \in Callers :
    /\ Returning(t, "speak")
    /\ call[t].engine_type = "Cloud"
    /\ ~cloud_engine
    /\ call[t].ret = "Cloud TTS not configured"
    /\ state = "Error"
    /\ n_speaks = 2
    /\ prev.op = "speak"
    /\ ~prev.ok
    /\ Len(invocations) = 1
    /\ invocations[1].engine = "Piper"

\* s is an initial part of q.
IsPrefix(s, q) == Len(s) <= Len(q) /\ \A i \in 1..Len(s) : s[i] = q[i]

\* C32: what stop() does outside the supervisor is ordered: the shutdown
\* request first, then the wait bounded by the grace period, then the
\* kill; the kill is issued only when the wait timed out or failed, and a
\* child that exited within the grace period is never killed.
C32_StopEventsOrdered ==
  /\ [](srv.op = "stop" =>
          /\ IsPrefix(srv.log, <<"shutdown", "wait", "kill">>)
          /\ srv.pc \in {"stop_wait", "stop_kill"} => srv.log[1] = "shutdown"
          /\ srv.wait # "none" <=> Len(srv.log) >= 2
          /\ srv.kill # "none" <=> Len(srv.log) = 3
          /\ srv.pc = "stop_kill" \/ srv.kill # "none" =>
               srv.wait \in {"timeout", "error"}
          /\ srv.wait = "exited" =>
               /\ srv.kill = "none"
               /\ srv.pc \in {"stop_clear", "return"}
               /\ procs[srv.pre] = "exited")
  /\ [][\A p \in 1..Len(procs) :
          procs[p] # "killed" /\ procs'[p] = "killed" =>
            /\ srv.pc = "stop_kill"
            /\ p = child
            /\ srv.wait = "timeout"
            /\ srv.log = <<"shutdown", "wait">>]_vars

\* stop() has returned after the child exited within the grace period:
\* the request and the wait, and no kill.
C32_Witness ==
  /\ SrvReturning("stop")
  /\ srv.pre # 0
  /\ srv.wait = "exited"
  /\ srv.log = <<"shutdown", "wait">>
  /\ procs[srv.pre] = "exited"

\* C33 (as stated): a caller of the shared handle that received a response
\* received the one the worker sent for the caller's own command.
C33_OwnResponse ==
  \A t \in Callers :
    call[t].op \in PlayerOps /\ call[t].answers # <<>> =>
      call[t].answers[1] = CommandFor(call[t])

C35_SynthesizingNeverObserved ==
  /\ \A t \in Callers :
       Returning(t, "get_state") =>
         call[t].ret \in PlaybackState \ {"Synthesizing"}
  /\ state = "Synthesizing" =>
       /\ tts_manager # 0
       /\ call[tts_manager].op = "speak"
       /\ pc[tts_manager] \in {"speak_engine", "synthesize", "speak_match"}
  /\ \A t \in Callers : pc[t] = "get_state" => tts_manager = t

\* get_playback_state returns Error right after a speak that wrote
\* Synthesizing and then failed.
C35_Witness ==
  \E t \in Callers :
    /\ Returning(t, "get_state")
    /\ call[t].ret = "Error"
    /\ prev.op = "speak"
    /\ ~prev.ok
    /\ last_change.op = "speak"

\* The operations that can take the playback state away from Playing.
Leaving == {"speak", "stop", "pause"}

\* C36: the state leaves Playing only by a step of a speak, a stop or a
\* pause; the end of the sound in the sink changes the queue of the sink
\* and nothing of the orchestrator, so the state never goes back to Idle by
\* itself.
C36_PlayingUntilCommand ==
  /\ [][state = "Playing" /\ state' # "Playing" =>
          \E t \in Callers :
            /\ call[t].op \in Leaving
            /\ pc'[t] # pc[t]
            /\ tts_manager = t]_vars
  /\ [][pc' = pc => state' = state /\ config' = config]_vars
  /\ [](state = "Playing" /\ tts_manager = 0 =>
          last_change.op \in {"speak", "resume"})

\* The sound of a successful speak has ended, no command is running, and
\* the state is still Playing.
C36_Witness ==
  /\ state = "Playing"
  /\ tts_manager = 0
  /\ last_change = [op |-> "speak", ok |-> TRUE]
  /\ worker_alive
  /\ cmd_rx = <<>>
  /\ sink.queue = <<>>

\* C37: a Play whose bytes do not decode leaves the sink exactly as it was:
\* the step of the worker that handles it changes nothing of the sink, and
\* the play that returns the decode error finds the queue, the paused flag
\* and the volume that it found when it was called.
C37_FailedPlayKeepsSink ==
  /\ [](\A t \in Callers :
          /\ Returning(t, "AudioPlayer::play")
          /\ call[t].resp = "Failed to decode audio"
          => /\ ~call[t].result.audio.decodable
             /\ sink = call[t].before)
  /\ [][/\ cmd_rx # <<>>
        /\ cmd_rx' # cmd_rx
        /\ worker_alive'
        /\ Head(cmd_rx).kind = "Play"
        /\ ~Head(cmd_rx).audio.decodable
        => sink' = sink]_vars

\* A play has returned the decode error, and the sound that was paused in
\* the sink before it is still there, paused.
C37_Witness ==
  \E t \in Callers :
    /\ Returning(t, "AudioPlayer::play")
    /\ call[t].resp = "Failed to decode audio"
    /\ call[t].before.queue = <<2>>
    /\ call[t].before.paused
    /\ sink.queue = <<2>>
    /\ sink.paused

\* C38: the engines are those built at construction: no step changes them,
\* and update_config changes only what the next speak selects, its engine
\* and its defaults. After an update_config that brings a cloud credential
\* to an orchestrator built without one, a speak that resolves to Cloud
\* still fails with "Cloud TTS not configured" and
\* get_available_engines still returns no Cloud.
C38_EnginesFixedAtConstruction ==
  /\ [](/\ cloud_engine <=> engines.key \notin {None, ""}
        /\ engines.cloud = NoCloudEngine <=> ~cloud_engine
        /\ \A t \in Callers :
             /\ Returning(t, "speak") =>
                  /\ call[t].engine_type = ResolveEngine(call[t].arg, config)
                  /\ call[t].request = MergeDefaults(call[t].arg, config)
                  /\ call[t].engine_type = "Cloud" /\ engines.key \in {None, ""}
                     => /\ call[t].ret = "Cloud TTS not configured"
                        /\ call[t].invoked = None
             /\ Returning(t, "get_available_engines") /\ engines.key \in {None, ""}
                  => "Cloud" \notin call[t].available)
  /\ [][engines' = engines /\ cloud_engine' = cloud_engine
          /\ player' = player]_vars

\* On an orchestrator built from the default configuration, after an
\* update_config whose configuration selects Cloud and brings a key, a
\* speak without an engine of its own resolves to Cloud, with the new
\* default rate, and fails.
C38_Witness ==
  \E t \in Callers :
    /\ Returning(t, "speak")
    /\ engines.key = None
    /\ config = OpenAIConfig
    /\ call[t].arg.engine = None
    /\ call[t].engine_type = "Cloud"
    /\ call[t].request.rate = OpenAIConfig.default_rate
    /\ call[t].ret = "Cloud TTS not configured"
    /\ state = "Error"

\* start_server is at a point where it returns to its caller.
StartServerReturning ==
  /\ srv.op = "start_server"
  /\ srv.pc = "return"
  /\ ~(srv.stage = "start" /\ srv.ret = "Ok")

\* C39: a start_server that spawned a child and whose health check then
\* failed returns the error with the child still tracked and not killed;
\* health_check changes nothing of the supervisor's handle; returning from
\* the command changes neither the handle nor a process; and a spawn is
\* made only with no child tracked, so that a later start_server with the
\* child alive spawns no second one.
C39_FailedHealthKeepsChild ==
  /\ [](/\ StartServerReturning /\ srv.stage = "health" /\ srv.ret # "Ok"
           /\ Spawned = 1
           => /\ child = Len(procs)
              /\ procs[child] # "killed"
              /\ srv.log = <<"spawn">>
        /\ StartServerReturning /\ srv.ret = "Server did not become healthy"
           => srv.polls = HEALTH_MAX_RETRIES
        /\ srv.pc \in {"start_dir", "start_spawn"} => child = 0
        /\ srv.op = "start_server" => Spawned <= 1
        /\ \A p \in 1..Len(procs) : procs[p] # "killed")
  /\ [][/\ srv.stage = "health" => child' = child
        /\ srv.pc = "return" /\ srv' # srv => child' = child /\ procs' = procs
        /\ Len(procs') > Len(procs) =>
             /\ child = 0
             /\ srv.pre # 0 => ~Alive(srv.pre)]_vars

\* A second start_server times out on its health check as the first did:
\* the child that the first spawned is alive and tracked, and it is the
\* only process.
C39_Witness ==
  /\ StartServerReturning
  /\ srv.ret = "Server did not become healthy"
  /\ srv.last = "start_server"
  /\ srv.last_ret = "Server health check failed"
  /\ srv.pre = 1
  /\ child = 1
  /\ Alive(1)
  /\ Len(procs) = 1

====
